---- MODULE Spec2Model ----
(***************************************************************************)
(* The zet fetcher (src/zet/fetcher/fetcher.py) and the push server it     *)
(* publishes through (src/zet/utils/websocket_server.py).                  *)
(*                                                                         *)
(* Two threads share the push server: the fetcher's main thread, which     *)
(* runs Fetcher.run and calls update_data, and the server thread, whose    *)
(* asyncio event loop runs one _handle_client coroutine per subscriber and *)
(* the broadcasts scheduled by _notify_clients.  Coroutines of the loop    *)
(* run one at a time and give up the loop thread only inside an await;     *)
(* data_lock is a threading.Lock, so a coroutine that waits for it blocks  *)
(* the whole loop thread.                                                  *)
(*                                                                         *)
(* Time is counted in whole seconds and advances in Fetcher.sleep only.    *)
(***************************************************************************)
EXTENDS Integers, Sequences, FiniteSets, TLC

\* ------------------------------------------------------------------ bounds

\* Loop iterations of Fetcher.run explored under Spec (with subscribers).
MaxTicks == 2
\* Loop iterations explored under SpecFeeds (no subscriber, every kind of feed).
MaxTicksFeeds == 5
\* Loop iterations explored under SpecArchive (no subscriber, well-formed feeds).
MaxTicksArchive == 12
\* Loop iterations explored under SpecShutdown (a shutdown signal arrives).
MaxTicksShutdown == 3

\* The subscribers that may connect during a run, named in the order in
\* which they connect.
ConnectOrder == <<"c1", "c2">>
Subscribers == {ConnectOrder[i] : i \in 1..Len(ConnectOrder)}

\* --realtime-dt and --static-dt, in seconds: the configuration the runs are
\* explored under (the command line defaults are 10 and 3600).
realtime_dt == 3
static_dt == 2

\* MAX_SNAPSHOT_COUNT is 10000 in fetcher.py; the runs are explored with a
\* threshold of 3 new rows, so that they meet several rotations.
MAX_SNAPSHOT_COUNT == 3

\* ---------------------------------------------------------- constants

INVALID_TIMESTAMP == 0
\* datetime.date(1970, 1, 1); calendar dates are counted in days after it.
INVALID_DATE == 0
RealtimeMaxHistory == 10
StaticMaxHistory == 3
short_delay == 1
MaxBackoff == 60
\* ws_thread.join(timeout=5)
JoinTimeout == 5

None == "None"
\* An attribute that is None or holds a value: <<>> or <<value>>.
Nothing == <<>>
Some(v) == <<v>>

Max(a, b) == IF a >= b THEN a ELSE b
Min(a, b) == IF a <= b THEN a ELSE b

long_delay == Max(1, realtime_dt - 1)

\* kinds_order given to WebSocketSnapshotServer by Fetcher.__init__.
kinds_order == <<"static-snapshot", "realtime-snapshot">>
Topics == {kinds_order[i] : i \in 1..Len(kinds_order)}

\* ------------------------------------------------------------- payloads

\* A realtime payload: bytes that parse as a FeedMessage with the given
\* header timestamp ("pb"), or bytes that do not parse ("junk").
RtPayloads == {<<"pb", 1>>, <<"pb", 2>>, <<"junk", 0>>}
RtPayloadsValid == {<<"pb", 1>>, <<"pb", 2>>}

\* A row of calendar.txt: its start_date parses to a date, or it does not.
Row(d) == [ok |-> TRUE, date |-> d]
BadRow == [ok |-> FALSE, date |-> 0]

\* A static payload: a zip whose calendar.txt holds the given rows, or bytes
\* that are no zip with a calendar.txt in it.
StPayloads ==
  { <<"zip", <<Row(2), Row(1)>> >>, <<"zip", <<Row(3)>> >>,
    <<"zip", <<Row(2), BadRow>> >>, <<"junk", <<>> >> }
StPayloadsValid == { <<"zip", <<Row(2), Row(1)>> >>, <<"zip", <<Row(3)>> >> }
StPayloadsOne == { <<"zip", <<Row(3)>> >> }

\* gzip.compress: never empty, and one-to-one.
Gzip(raw) == <<"gz", raw>>
\* b'' as written for a row that repeats the previous payload.
EmptyBytes == <<>>
\* bytes.hex()
Hex(bytes) == <<"hex", bytes>>

\* process_gtfs_realtime: the header timestamp, INVALID_TIMESTAMP when the
\* parse raises.
process_gtfs_realtime(raw, fetched_at) ==
  [ raw_data |-> raw, gzipped_data |-> Gzip(raw), fetched_at |-> fetched_at,
    snapshot_at |-> IF raw[1] = "pb" THEN raw[2] ELSE INVALID_TIMESTAMP ]

\* The loop over csv.DictReader rows in process_gtfs_static: the date so far
\* after the first n rows; a row that does not parse raises and leaves the
\* date as it was when the exception was caught.
RECURSIVE CalendarScan(_, _, _)
CalendarScan(rows, i, calendar_date) ==
  IF i > Len(rows) THEN calendar_date
  ELSE IF ~rows[i].ok THEN calendar_date
  ELSE CalendarScan(rows, i + 1,
         IF calendar_date = INVALID_DATE THEN rows[i].date
         ELSE Min(calendar_date, rows[i].date))

process_gtfs_static(raw, fetched_at) ==
  [ raw_data |-> raw, gzipped_data |-> Gzip(raw), fetched_at |-> fetched_at,
    calendar_date |-> IF raw[1] = "zip" THEN CalendarScan(raw[2], 1, INVALID_DATE)
                      ELSE INVALID_DATE ]

RealtimeIsValid(s) == s.snapshot_at > INVALID_TIMESTAMP
StaticIsValid(s) == s.calendar_date > INVALID_DATE

\* The frames built by update_realtime_snapshot / update_static_snapshot.
RealtimeFrame(s) ==
  [kind |-> "realtime", fetched_at |-> s.fetched_at, gzipped_data |-> Hex(s.gzipped_data)]
StaticFrame(s) ==
  [kind |-> "static", fetched_at |-> s.fetched_at, gzipped_data |-> Hex(s.gzipped_data)]

\* ------------------------------------------------------------- gateway

\* Realtime frames the gateway ingests in a run, and static frames.
MaxIngests == 4
MaxStaticIngests == 2
\* Static frames ingested, minutes passed and GET requests made in a run of
\* SpecStatic.
MaxStaticIngestsServed == 5
MaxMinutes == 3
MaxRequests == 2
\* Frames that fail to decode in a run.
MaxBadFrames == 2
\* Realtime and static frames ingested in a run with map clients.
MaxMapIngests == 2
MaxMapStaticIngests == 1

\* Connections made to the fetcher and sleeps before a reconnect in a run of
\* SpecReconnect.
MaxLinkLog == 10
\* Realtime frames the fetcher publishes in a run of SpecRelink.
MaxRelinkFeeds == 2
\* max_backoff_time in fetch_data_from_fetcher
max_backoff_time == 4

\* The map clients, one on each route: /ws is version 0, /ws-v1 version 1.
MapClients == {"m0", "m1"}
RouteVersion == [c \in MapClients |-> IF c = "m0" THEN 0 ELSE 1]

\* MAX_TRAJECTORY_LENGTH is 30 and TRAJECTORY_OUTPUT_LENGTH is 6 in
\* webserver.py, and RealtimeState.update keeps the vehicles with
\* no_update_counter < 30; the runs are explored with 3, 2 and 3.
MAX_TRAJECTORY_LENGTH == 3
TRAJECTORY_OUTPUT_LENGTH == 2
NoUpdateLimit == 3

DIRECTION_THRESHOLD_METERS == 20
MAX_RECENT_STATIC_SNAPSHOTS == 3

\* Coordinates are counted in units of 10^-7 degrees, so that
\* 10 ** coord_num_digits (10^6 per degree) is one for every CoordUnits units.
CoordUnits == 10
ref_lat == 458150000
ref_lon == 159819000

\* The trips of the realtime feed, with their routes and the delay of their
\* position report behind the feed's header timestamp.
TripIds == {"t1", "t2"}
RouteIds == [t \in TripIds |-> IF t = "t1" THEN 6 ELSE 11]
ReportLag == [t \in TripIds |-> IF t = "t1" THEN 0 ELSE 1]

\* The positions reported, <<latitude, longitude>>: two that are 0.1 m apart,
\* the second of them west of the reference by less than 10^-6 degrees, and
\* one 22 m north of them.  The second trip reports from one place.
Positions ==
  { <<ref_lat + 4, ref_lon + 4>>, <<ref_lat + 8, ref_lon - 9>>,
    <<ref_lat + 2004, ref_lon + 4>> }
PositionsOf(t) == IF t = "t1" THEN Positions ELSE {<<ref_lat + 4, ref_lon + 4>>}

\* ParsedVehicle
ParsedVehicle(t, pos, feed_timestamp) ==
  [route_id |-> RouteIds[t], trip_id |-> t, timestamp |-> feed_timestamp - ReportLag[t],
   lat |-> pos[1], lon |-> pos[2]]

\* ParsedFeed: the feeds with the given header timestamp, no trip twice.
ParsedFeeds(ts) ==
  LET one == UNION {{<<ParsedVehicle(t, pos, ts)>> : pos \in PositionsOf(t)} : t \in TripIds}
      two == {vs \in {a \o b : a \in one, b \in one} : vs[1].trip_id # vs[2].trip_id}
  IN {[vehicles |-> vs, timestamp |-> ts] : vs \in {<<>>} \cup one \cup two}

\* trip_to_shape_id of the static payloads: None for a trip without a row.
TripToShapeIds ==
  { [t \in TripIds |-> IF t = "t1" THEN "s1" ELSE "s2"],
    [t \in TripIds |-> IF t = "t1" THEN "s3" ELSE None] }

Abs(x) == IF x < 0 THEN -x ELSE x

\* int(x): truncation towards zero, of the quotient a / b with b > 0.
IntOf(a, b) == IF a >= 0 THEN a \div b ELSE -((-a) \div b)

\* StaticReferenceSystem._compress_coord from the i-th value on:
\* int((v - ref_value) * factor + 0.5), then ref_value = v.
RECURSIVE CompressFrom(_, _, _)
CompressFrom(ref_value, values, i) ==
  IF i > Len(values) THEN <<>>
  ELSE <<IntOf(2 * (values[i] - ref_value) + CoordUnits, 2 * CoordUnits)>>
         \o CompressFrom(values[i], values, i + 1)

_compress_coord(ref_value, values) == CompressFrom(ref_value, values, 1)
compress_lats(lat) == _compress_coord(ref_lat, lat)
compress_lons(lon) == _compress_coord(ref_lon, lon)

\* compress_timestamps with the difference taken the other way round.
compress_timestamps_swapped(ref_timestamp, timestamps) ==
  [i \in 1..Len(timestamps) |-> timestamps[i] - ref_timestamp]

\* ReferenceSystem.compress_timestamps
compress_timestamps(ref_timestamp, timestamps) ==
  [i \in 1..Len(timestamps) |-> ref_timestamp - timestamps[i]]

\* latlon.haversine_distance_meters(...) > meters, for points this close to
\* each other and to the reference: with cos^2(45.815 deg) = 0.4858, and
\* 8088 squared units of 10^-7 degrees of a great circle in a square meter
\* (one unit is 0.0111195 m).
haversine_exceeds(lat1, lon1, lat2, lon2, meters) ==
  LET dlat == lat2 - lat1
      dlon == lon2 - lon1
  IN dlat * dlat + (4858 * dlon * dlon) \div 10000 > meters * meters * 8088

\* latlon.arrow_angle: the vector <<dx, dy>> whose atan2(dx, dy) it returns,
\* in thousandths of a unit, with cos(45.815 deg) = 0.697.
arrow_angle(lat1, lon1, lat2, lon2) == <<(lon2 - lon1) * 697, (lat2 - lat1) * 1000>>

\* round(direction_radians * 180 / math.pi), for a direction within half a
\* degree of an axis (tan(0.5 deg) > 0.008); other directions keep their
\* vector.
Degrees(direction_radians) ==
  IF direction_radians = Nothing THEN Nothing
  ELSE LET dx == direction_radians[1]
           dy == direction_radians[2]
       IN IF 1000 * Abs(dx) < 8 * Abs(dy)
          THEN Some(IF dy > 0 THEN 0 ELSE IF dx >= 0 THEN 180 ELSE -180)
          ELSE IF 1000 * Abs(dy) < 8 * Abs(dx)
          THEN Some(IF dx > 0 THEN 90 ELSE -90)
          ELSE Some(direction_radians)

\* The loop of compute_direction, from past index i down: scanning towards
\* the oldest first.
RECURSIVE ScanOldestFirst(_, _, _)
ScanOldestFirst(lat, lon, i) ==
  LET n == Len(lat) IN
    IF i >= n THEN Nothing
    ELSE IF haversine_exceeds(lat[n], lon[n], lat[i], lon[i], DIRECTION_THRESHOLD_METERS)
         THEN arrow_angle(lat[i], lon[i], lat[n], lon[n])
         ELSE ScanOldestFirst(lat, lon, i + 1)

\* compute_direction that takes range(len(lat) - 1) without reversed().
compute_direction_oldest_first(lat, lon) ==
  IF Len(lat) < 2 THEN Nothing ELSE ScanOldestFirst(lat, lon, 1)

\* The loop of compute_direction, for i in reversed(range(len(lat) - 1)),
\* from index i (counted from 1) down.
RECURSIVE ScanDirection(_, _, _)
ScanDirection(lat, lon, i) ==
  LET n == Len(lat) IN
    IF i < 1 THEN Nothing
    ELSE IF haversine_exceeds(lat[n], lon[n], lat[i], lon[i], DIRECTION_THRESHOLD_METERS)
         THEN arrow_angle(lat[i], lon[i], lat[n], lon[n])
         ELSE ScanDirection(lat, lon, i - 1)

\* Vehicle.compute_direction
compute_direction(lat, lon) ==
  IF Len(lat) < 2 THEN Nothing ELSE ScanDirection(lat, lon, Len(lat) - 1)

\* static_data.trip_to_shape_id.get(trip_id), None without static data.
ShapeIdOf(static_data, trip_id) ==
  IF static_data = Nothing THEN None ELSE static_data[1].trip_to_shape_id[trip_id]

\* Vehicle.from_parsed_vehicle
from_parsed_vehicle(vehicle, static_data) ==
  [key |-> vehicle.trip_id, route_id |-> vehicle.route_id,
   shape_id |-> ShapeIdOf(static_data, vehicle.trip_id),
   timestamp |-> vehicle.timestamp, lat |-> <<>>, lon |-> <<>>,
   direction_radians |-> Nothing, no_update_counter |-> 0]

\* append, and pop(0) past MAX_TRAJECTORY_LENGTH.
AppendPosition(list, value) ==
  LET l == Append(list, value) IN
    IF Len(l) > MAX_TRAJECTORY_LENGTH THEN Tail(l) ELSE l

\* AttachShape that leaves a shape_id that is not null alone.
AttachShapeWhenNull(current, shape_id) ==
  IF current = None /\ shape_id # None THEN shape_id ELSE current

\* Vehicle.update, last lines: if shape_id is not None: self.shape_id = shape_id
AttachShape(current, shape_id) == IF shape_id # None THEN shape_id ELSE current

\* Vehicle.update without its last lines: the shape_id stays as created.
VehicleUpdateKeepsShape(v, vehicle, static_data) ==
  LET lat == AppendPosition(v.lat, vehicle.lat)
      lon == AppendPosition(v.lon, vehicle.lon)
  IN [v EXCEPT !.lat = lat, !.lon = lon, !.timestamp = vehicle.timestamp,
               !.no_update_counter = 0,
               !.direction_radians = compute_direction(lat, lon)]

\* Vehicle.update
VehicleUpdate(v, vehicle, static_data) ==
  LET lat == AppendPosition(v.lat, vehicle.lat)
      lon == AppendPosition(v.lon, vehicle.lon)
      shape_id == ShapeIdOf(static_data, vehicle.trip_id)
  IN [v EXCEPT !.lat = lat, !.lon = lon, !.timestamp = vehicle.timestamp,
               !.no_update_counter = 0,
               !.direction_radians = compute_direction(lat, lon),
               !.shape_id = AttachShape(@, shape_id)]

\* self.vehicles.get(trip_id): the index of the entry, 0 for None.
IndexOf(vehicles, trip_id) ==
  IF \E i \in 1..Len(vehicles) : vehicles[i].key = trip_id
  THEN CHOOSE i \in 1..Len(vehicles) : vehicles[i].key = trip_id
  ELSE 0

\* The second loop of RealtimeState.update, from the i-th vehicle of the feed.
RECURSIVE MergeFrom(_, _, _, _)
MergeFrom(vehicles, feed_vehicles, i, static_data) ==
  IF i > Len(feed_vehicles) THEN vehicles
  ELSE LET vehicle == feed_vehicles[i]
           k == IndexOf(vehicles, vehicle.trip_id)
           with_v == IF k = 0
                     THEN Append(vehicles, from_parsed_vehicle(vehicle, static_data))
                     ELSE vehicles
           j == IF k = 0 THEN Len(with_v) ELSE k
       IN MergeFrom([with_v EXCEPT ![j] = VehicleUpdate(@, vehicle, static_data)],
                    feed_vehicles, i + 1, static_data)

\* The last tail of the lists: list[-L:].
LastL(list, L) == SubSeq(list, Max(1, Len(list) - L + 1), Len(list))

\* if v.no_update_counter == 0
IsFresh(v) == v.no_update_counter = 0

\* KeepsVehicle with <= for <.
KeepsVehicleOneMore(v) == v.no_update_counter <= NoUpdateLimit

\* if v.no_update_counter < 30
KeepsVehicle(v) == v.no_update_counter < NoUpdateLimit

\* RealtimeState.update
RealtimeStateUpdate(state, feed, latest_static_data) ==
  LET counted == [i \in 1..Len(state.vehicles) |->
                    [state.vehicles[i] EXCEPT !.no_update_counter = @ + 1]]
      static_data == IF latest_static_data = Nothing THEN Nothing
                     ELSE Some(latest_static_data[1].static_data)
      merged == MergeFrom(counted, feed.vehicles, 1, static_data)
  IN [vehicles |-> SelectSeq(merged, KeepsVehicle),
      timestamp |-> feed.timestamp,
      latest_static_key |-> IF latest_static_data = Nothing THEN Nothing
                            ELSE latest_static_data[1].key]

\* Vehicle.to_json_v0
VehicleToJsonV0(v) ==
  [routeId |-> v.route_id, timestamp |-> v.timestamp,
   lat |-> LastL(v.lat, TRAJECTORY_OUTPUT_LENGTH),
   lon |-> LastL(v.lon, TRAJECTORY_OUTPUT_LENGTH),
   directionDegrees |-> Degrees(v.direction_radians)]

\* to_json_v0 without the test of no_update_counter.
to_json_v0_every_vehicle(state) ==
  [i \in 1..Len(state.vehicles) |-> VehicleToJsonV0(state.vehicles[i])]

\* RealtimeState.to_json_v0
to_json_v0(state) ==
  LET vehicles == SelectSeq(state.vehicles, IsFresh)
  IN [i \in 1..Len(vehicles) |-> VehicleToJsonV0(vehicles[i])]

\* Vehicle.to_compressed_json
to_compressed_json(vehicles, ref_timestamp) ==
  LET n == Len(vehicles) IN
  [routeIds |-> [i \in 1..n |-> vehicles[i].route_id],
   shapeIds |-> [i \in 1..n |-> vehicles[i].shape_id],
   timestamps |-> compress_timestamps(ref_timestamp,
                                      [i \in 1..n |-> vehicles[i].timestamp]),
   compressedLats |-> [i \in 1..n |->
       compress_lats(LastL(vehicles[i].lat, TRAJECTORY_OUTPUT_LENGTH))],
   compressedLons |-> [i \in 1..n |->
       compress_lons(LastL(vehicles[i].lon, TRAJECTORY_OUTPUT_LENGTH))],
   directionDegrees |-> [i \in 1..n |-> Degrees(vehicles[i].direction_radians)]]

\* RealtimeState.to_json_v1
to_json_v1(state) ==
  [vehicles |-> to_compressed_json(SelectSeq(state.vehicles, IsFresh), state.timestamp),
   timestamp |-> state.timestamp,
   latestStaticKey |-> state.latest_static_key]

\* compact_json: json.dumps, one-to-one on these values.
compact_json(json_data) == <<"json", json_data>>

\* WsOutputMessageVariants.from_realtime_state
from_realtime_state(state) ==
  [version0 |-> compact_json(to_json_v0(state)),
   version1 |-> compact_json(to_json_v1(state))]

\* ----------------------------------------------------------------- state

VARIABLES
  \* WebSocketServer
  loop,            \* self.loop: None or "loop"
  ctor_done,       \* __init__ has run its last line (self.loop = None)
  loop_started,    \* start_ws_server has stored the loop and runs it
  data,            \* self.data: topic -> list of frames
  data_lock,       \* "free", or the subscriber whose handler holds it (the main
                   \* thread takes and releases it within one step)
  clients,         \* self.clients
  handler,         \* subscriber -> where its _handle_client coroutine is
  pos,             \* subscriber -> frames of the replay already passed to send
  conn,            \* subscriber -> "none", "open", "closed" (the peer's side)
  sent,            \* subscriber -> frames websocket.send accepted, in order
  send_errors,     \* subscriber -> frames whose websocket.send raised
  tasks,           \* broadcasts scheduled on the loop, oldest first
  running,         \* the coroutine that occupies the loop thread, or None
  \* Fetcher
  pc,              \* where the main thread is in Fetcher.run
  now,             \* wall clock, seconds
  current_delay,
  last_static_fetch,
  current_realtime_snapshot,
  current_static_snapshot,
  new_snapshots_count,
  db,              \* the archive files, oldest first; the last one is open
  call,            \* the arguments of the update_data call in progress
  ticks,           \* loop iterations started
  \* history
  snap,            \* subscriber -> self.data as it was when its replay began
  owed,            \* subscriber -> frames appended while it was in clients
  published,       \* topic -> every frame ever appended to it
  rt_fetched,      \* every realtime payload fetched, in order
  \* Fetcher, shutdown
  fetcher_running, \* Fetcher.running
  sleep_left,      \* iterations left of the loop in Fetcher.sleep
  db_open,         \* db_conn has not been closed by run
  ws_server,       \* WebSocketServer.ws_server: None or "server"
  \* GtfsServer (the gateway)
  realtime_state,  \* [vehicles, timestamp, latest_static_key]; vehicles is the
                   \* dict in insertion order, a list of vehicles with their key
  recent_static_snapshots,
  latest_message,  \* None, or the pair of encoded messages
  ingests,         \* frames received from the fetcher
  static_ingests,  \* static frames received from the fetcher
  minute,          \* the gateway's wall clock, in minutes
  track,           \* history: trip -> the positions ingested for it since its
                   \* vehicle was created, oldest first
  misses,          \* history: trip -> the feeds ingested since the last one
                   \* that contained it; -1 before the first one
  born_shape,      \* history: trip -> the shape_id its vehicle was created with
  \* GET /static/<key>
  http_request,    \* None, or the key requested and the index the loop of
                   \* handle_static_data_request has reached
  http_response,   \* None, or the last response sent
  http_requests,   \* requests made
  key_held,        \* history: the key requested has been in the static
                   \* history ever since the request arrived
  \* map clients of the gateway
  ws_clients,      \* self.ws_clients
  ws_pc,           \* client -> where its handle_websocket is
  ws_conn,         \* client -> "none", "open", "closed" (the peer's side)
  ws_holds,        \* client -> the string handle_websocket is about to send
  ws_received,     \* client -> what ws.send accepted for it, in order, each
                   \* with the number of the ingest that produced it
  broadcast,       \* None, or the _notify_clients call in progress
  bad_frames,      \* history: the frames received that failed to decode or
                   \* parse, each with the frames ingested before it
  \* the gateway's connection to the fetcher
  link,            \* where fetch_data_from_fetcher is: "connect", "connected"
                   \* (in the loop of recv), "except" (about to sleep)
  backoff_time,
  link_log,        \* history: 0 for every connection made and the seconds
                   \* of every sleep before a reconnect, in order
  feed_history,    \* the fetcher's history of topic realtime-snapshot, each
                   \* frame as the feed it decodes to
  inbox,           \* the realtime frames the fetcher has sent on the gateway's
                   \* current connection, replay first
  inbox_base       \* ingests when the current connection was made

pushVars == <<loop, ctor_done, loop_started, data, data_lock, clients, handler,
              pos, conn, sent, send_errors, tasks, running>>
fetchVars == <<pc, now, current_delay, last_static_fetch, current_realtime_snapshot,
               current_static_snapshot, new_snapshots_count, db, call, ticks>>
histVars == <<snap, owed, published, rt_fetched>>
shutdownVars == <<fetcher_running, sleep_left, db_open, ws_server>>
gatewayVars == <<realtime_state, recent_static_snapshots, latest_message, ingests,
                 static_ingests, minute, track, misses, born_shape>>
staticRequestVars == <<http_request, http_response, http_requests, key_held>>
clientVars == <<ws_clients, ws_pc, ws_conn, ws_holds, ws_received, broadcast,
                bad_frames>>
reconnectVars == <<link, backoff_time, link_log, feed_history, inbox, inbox_base>>
mapVars == <<staticRequestVars, clientVars, reconnectVars>>
vars == <<pushVars, fetchVars, histVars, shutdownVars, gatewayVars, mapVars>>

\* ------------------------------------------------------------------ Init

\* setup_database: a new file with its two empty tables.
setup_database == [snapshots |-> <<>>, static_snapshots |-> <<>>]

NoCall == [key |-> None, data |-> None, max_history |-> 0]

\* Fetcher.__init__ has started the server thread (websocket_server.py:22);
\* neither thread has stored self.loop yet.
Init ==
  /\ loop = None
  /\ ctor_done = FALSE
  /\ loop_started = FALSE
  /\ data = [k \in Topics |-> <<>>]
  /\ data_lock = "free"
  /\ clients = {}
  /\ handler = [c \in Subscribers |-> "none"]
  /\ pos = [c \in Subscribers |-> 0]
  /\ conn = [c \in Subscribers |-> "none"]
  /\ sent = [c \in Subscribers |-> <<>>]
  /\ send_errors = [c \in Subscribers |-> <<>>]
  /\ tasks = <<>>
  /\ running = None
  /\ pc = "loop"
  /\ now = 0
  /\ current_delay = short_delay
  /\ last_static_fetch = Nothing
  /\ current_realtime_snapshot = Nothing
  /\ current_static_snapshot = Nothing
  /\ new_snapshots_count = 0
  /\ db = <<setup_database>>
  /\ call = NoCall
  /\ ticks = 0
  /\ snap = [c \in Subscribers |-> [k \in Topics |-> <<>>]]
  /\ owed = [c \in Subscribers |-> {}]
  /\ published = [k \in Topics |-> <<>>]
  /\ rt_fetched = <<>>
  /\ fetcher_running = TRUE
  /\ sleep_left = 0
  /\ db_open = TRUE
  /\ ws_server = None
  /\ realtime_state = [vehicles |-> <<>>, timestamp |-> 0, latest_static_key |-> Nothing]
  /\ recent_static_snapshots = <<>>
  /\ latest_message = Nothing
  /\ ingests = 0
  /\ static_ingests = 0
  /\ minute = 0
  /\ track = [t \in TripIds |-> <<>>]
  /\ misses = [t \in TripIds |-> -1]
  /\ born_shape = [t \in TripIds |-> None]
  /\ http_request = Nothing
  /\ http_response = Nothing
  /\ http_requests = 0
  /\ key_held = FALSE
  /\ ws_clients = {}
  /\ ws_pc = [c \in MapClients |-> "none"]
  /\ ws_conn = [c \in MapClients |-> "none"]
  /\ ws_holds = [c \in MapClients |-> Nothing]
  /\ ws_received = [c \in MapClients |-> <<>>]
  /\ broadcast = Nothing
  /\ bad_frames = <<>>
  /\ link = "connect"
  /\ backoff_time = 1
  /\ link_log = <<>>
  /\ feed_history = <<>>
  /\ inbox = <<>>
  /\ inbox_base = 0

\* ---------------------------------------------------- WebSocketServer

\* __init__, line 27: self.loop = None, after the server thread was started.
CtorLastLine ==
  /\ UNCHANGED <<shutdownVars, gatewayVars, mapVars>>
  /\ ~ctor_done
  /\ ctor_done' = TRUE
  /\ loop' = None
  /\ UNCHANGED <<loop_started, data, data_lock, clients, handler, pos, conn, sent,
                 send_errors, tasks, running, fetchVars, histVars>>

\* start_ws_server: self.loop = loop, then the loop runs and
\* start_server_coroutine stores the listening server in self.ws_server.
start_ws_server ==
  /\ ~loop_started
  /\ loop_started' = TRUE
  /\ loop' = "loop"
  /\ ws_server' = "server"
  /\ UNCHANGED <<fetcher_running, sleep_left, db_open, gatewayVars, mapVars>>
  /\ UNCHANGED <<ctor_done, data, data_lock, clients, handler, pos, conn, sent,
                 send_errors, tasks, running, fetchVars, histVars>>

\* for data in self.data.values(): for message in data: the frames of the
\* topics in kinds_order, each topic's in list order.
RECURSIVE ReplayFrom(_, _)
ReplayFrom(d, i) ==
  IF i > Len(kinds_order) THEN <<>> ELSE d[kinds_order[i]] \o ReplayFrom(d, i + 1)

\* ReplayOrder with the topics taken in the other order.
ReplayOrderRealtimeFirst(d) == d["realtime-snapshot"] \o d["static-snapshot"]

ReplayOrder(d) == ReplayFrom(d, 1)

LoopFree == loop_started /\ running = None

\* The server learns that the peer of c has closed its side: an event of the
\* loop, taken when no coroutine occupies the loop thread.
Disconnect(c) ==
  /\ UNCHANGED <<shutdownVars, gatewayVars, mapVars>>
  /\ LoopFree
  /\ conn[c] = "open"
  /\ conn' = [conn EXCEPT ![c] = "closed"]
  /\ UNCHANGED <<loop, ctor_done, loop_started, data, data_lock, clients, handler, pos,
                 sent, send_errors, tasks, running, fetchVars, histVars>>

\* The frames of the replay from the one after `from`, n of them.
ReplayFrames(from, n) == SubSeq(ReplayOrder(data), from + 1, from + n)

\* The handler of c runs on the loop thread, holding data_lock, from the
\* frame after `from`: await self._send_message_to_client(websocket, message)
\* for n frames.  _send_message_to_client logs and swallows what
\* websocket.send raises (it raises on a closed connection).  Either the n-th
\* send suspends the coroutine, which keeps the lock, or the frames are
\* through and the with block releases the lock.
ReplayRun(c, open, from, n, suspends) ==
  /\ from + n <= Len(ReplayOrder(data))
  /\ IF open
     THEN /\ sent' = [sent EXCEPT ![c] = @ \o ReplayFrames(from, n)]
          /\ UNCHANGED send_errors
     ELSE /\ send_errors' = [send_errors EXCEPT ![c] = @ \o ReplayFrames(from, n)]
          /\ UNCHANGED sent
  /\ pos' = [pos EXCEPT ![c] = from + n]
  /\ IF suspends
     THEN /\ n >= 1
          /\ open
          /\ data_lock' = c
          /\ handler' = [handler EXCEPT ![c] = "suspended"]
          /\ running' = None
     ELSE /\ from + n = Len(ReplayOrder(data))
          /\ data_lock' = "free"
          /\ handler' = [handler EXCEPT ![c] = "join"]
          /\ running' = c

\* A peer connects and the loop runs its _handle_client: the handler takes
\* data_lock and starts the replay, or blocks the loop thread on the lock.
\* The main thread never holds the lock across a step, so a lock found held
\* is held by a handler suspended in a send, which only the blocked loop
\* thread could resume.
HandlerStart(c) ==
  /\ UNCHANGED <<shutdownVars, gatewayVars, mapVars>>
  /\ LoopFree
  /\ ws_server # None
  /\ conn[c] = "none"
  /\ \A i \in 1..Len(ConnectOrder) :
        ConnectOrder[i] = c => \A j \in 1..(i - 1) : conn[ConnectOrder[j]] # "none"
  /\ conn' = [conn EXCEPT ![c] = "open"]
  /\ IF data_lock = "free"
     THEN /\ snap' = [snap EXCEPT ![c] = data]
          /\ \E n \in 0..Len(ReplayOrder(data)), suspends \in BOOLEAN :
               ReplayRun(c, TRUE, 0, n, suspends)
     ELSE /\ handler' = [handler EXCEPT ![c] = "wait_lock"]
          /\ running' = c
          /\ UNCHANGED <<data_lock, pos, snap, sent, send_errors>>
  /\ UNCHANGED <<loop, ctor_done, loop_started, data, clients, tasks, fetchVars,
                 owed, published, rt_fetched>>

\* The suspended send completes and the loop runs the handler again.
ReplayResume(c) ==
  /\ UNCHANGED <<shutdownVars, gatewayVars, mapVars>>
  /\ LoopFree
  /\ handler[c] = "suspended"
  /\ \E n \in 0..Len(ReplayOrder(data)), suspends \in BOOLEAN :
       ReplayRun(c, conn[c] = "open", pos[c], n, suspends)
  /\ UNCHANGED <<loop, ctor_done, loop_started, data, clients, conn, tasks, fetchVars,
                 histVars>>

\* with self.clients_lock: self.clients.add(websocket); then the handler
\* awaits the peer's messages.
Join(c) ==
  /\ UNCHANGED <<shutdownVars, gatewayVars, mapVars>>
  /\ handler[c] = "join"
  /\ running = c
  /\ clients' = clients \cup {c}
  /\ handler' = [handler EXCEPT ![c] = "listen"]
  /\ running' = None
  /\ UNCHANGED <<loop, ctor_done, loop_started, data, data_lock, pos, conn, sent,
                 send_errors, tasks, fetchVars, histVars>>

\* async for message in websocket ends on the closed connection;
\* finally: self.clients.remove(websocket).
HandlerExit(c) ==
  /\ UNCHANGED <<shutdownVars, gatewayVars, mapVars>>
  /\ LoopFree
  /\ handler[c] = "listen"
  /\ conn[c] = "closed"
  /\ clients' = clients \ {c}
  /\ handler' = [handler EXCEPT ![c] = "done"]
  /\ UNCHANGED <<loop, ctor_done, loop_started, data, data_lock, pos, conn, sent,
                 send_errors, tasks, running, fetchVars, histVars>>

\* The subscribers a broadcast sends to: list(self.clients).
BroadcastTargets == clients

\* _notify_all_clients_async(data): one send per subscriber of the set; a
\* send that raises is logged by _send_message_to_client and nothing else.
NotifyAllClientsAsync ==
  /\ UNCHANGED <<shutdownVars, gatewayVars, mapVars>>
  /\ LoopFree
  /\ tasks # <<>>
  /\ LET message == Head(tasks) IN
       /\ sent' = [c \in Subscribers |->
                     IF c \in BroadcastTargets /\ conn[c] = "open"
                     THEN Append(sent[c], message) ELSE sent[c]]
       /\ send_errors' = [c \in Subscribers |->
                     IF c \in BroadcastTargets /\ conn[c] # "open"
                     THEN Append(send_errors[c], message) ELSE send_errors[c]]
  /\ tasks' = Tail(tasks)
  /\ UNCHANGED <<loop, ctor_done, loop_started, data, data_lock, clients, handler, pos,
                 conn, running, fetchVars, histVars>>

\* AppendBounded with pop() for pop(0): the newest frame is discarded.
AppendBoundedDropNewest(list, item, max_history) ==
  LET l == Append(list, item) IN
    IF Len(l) > max_history THEN SubSeq(l, 1, Len(l) - 1) ELSE l

\* The list after append and the pop(0) past max_history.
AppendBounded(list, item, max_history) ==
  LET l == Append(list, item) IN
    IF Len(l) > max_history THEN Tail(l) ELSE l

\* update_data: with self.data_lock: append and trim.
UpdateData ==
  /\ UNCHANGED <<shutdownVars, gatewayVars, mapVars>>
  /\ pc = "upd_lock"
  /\ data_lock = "free"
  /\ data' = [data EXCEPT ![call.key] = AppendBounded(@, call.data, call.max_history)]
  /\ published' = [published EXCEPT ![call.key] = Append(@, call.data)]
  /\ owed' = [c \in Subscribers |->
                IF c \in clients THEN owed[c] \cup {call.data} ELSE owed[c]]
  /\ pc' = "notify"
  /\ UNCHANGED <<loop, ctor_done, loop_started, data_lock, clients, handler, pos, conn,
                 sent, send_errors, tasks, running, now, current_delay,
                 last_static_fetch, current_realtime_snapshot, current_static_snapshot,
                 new_snapshots_count, db, call, ticks, snap, rt_fetched>>

\* ------------------------------------------------------------ Fetcher

\* INSERT INTO <table> on the open file, and commit.
Insert(d, table, row) == [d EXCEPT ![Len(d)][table] = Append(@, row)]

\* RotateAt with > for >=.
RotateLate(count) == count > MAX_SNAPSHOT_COUNT

\* if self.new_snapshots_count >= MAX_SNAPSHOT_COUNT
RotateAt(count) == count >= MAX_SNAPSHOT_COUNT

\* The second half of store_realtime_snapshot for a payload that is not the
\* previous one: the row, then the count and, at MAX_SNAPSHOT_COUNT,
\* reopen_database (a new file, the count back at 0).
StoreNewRealtimeRow(s) ==
  LET d == Insert(db, "snapshots",
                  [fetched_at |-> s.fetched_at, snapshot_at |-> s.snapshot_at,
                   gzipped_data |-> s.gzipped_data])
  IN IF RotateAt(new_snapshots_count + 1)
     THEN /\ db' = Append(d, setup_database)
          /\ new_snapshots_count' = 0
     ELSE /\ db' = d
          /\ new_snapshots_count' = new_snapshots_count + 1

\* SameRealtimeRow that stores the payload again.
SameRealtimeRowWithPayload(s, fetched_at) ==
  [fetched_at |-> fetched_at, snapshot_at |-> s.snapshot_at,
   gzipped_data |-> s.gzipped_data]

\* The row written for a payload equal to the previous one.
SameRealtimeRow(s, fetched_at) ==
  [fetched_at |-> fetched_at, snapshot_at |-> s.snapshot_at, gzipped_data |-> EmptyBytes]

StaticRow(s, fetched_at, gzipped_data) ==
  [fetched_at |-> fetched_at, gzipped_data |-> gzipped_data,
   calendar_date |-> s.calendar_date]

\* Backoff that adds a second instead of doubling.
BackoffLinear(delay) == Min(delay + 1, MaxBackoff)

\* run: fetch_url(self.realtime_url) returned None.
Backoff(delay) == Min(delay * 2, MaxBackoff)

FetchRealtimeFail(max_ticks) ==
  /\ UNCHANGED <<shutdownVars, gatewayVars, mapVars>>
  /\ pc = "loop"
  /\ fetcher_running
  /\ ctor_done
  /\ ticks < max_ticks
  /\ ticks' = ticks + 1
  /\ current_delay' = Backoff(current_delay)
  /\ pc' = "sleep"
  /\ UNCHANGED <<pushVars, now, last_static_fetch, current_realtime_snapshot,
                 current_static_snapshot, new_snapshots_count, db, call, histVars>>

\* SameSnapshot that never finds the payload equal to the previous one.
SameSnapshotNever(current, raw) == FALSE

\* same_snapshot in store_realtime_snapshot / store_static_snapshot.
SameSnapshot(current, raw) ==
  IF current = Nothing THEN FALSE ELSE raw = current[1].raw_data

\* run: fetch_url returned raw; store_realtime_snapshot(raw) up to its call
\* of update_realtime_snapshot, or to its end when it makes none.
FetchRealtime(raw, max_ticks) ==
  /\ UNCHANGED <<shutdownVars, gatewayVars, mapVars>>
  /\ pc = "loop"
  /\ fetcher_running
  /\ ctor_done
  /\ ticks < max_ticks
  /\ ticks' = ticks + 1
  /\ rt_fetched' = Append(rt_fetched, raw)
  /\ IF SameSnapshot(current_realtime_snapshot, raw)
     THEN /\ db' = Insert(db, "snapshots",
                          SameRealtimeRow(current_realtime_snapshot[1], now))
          /\ current_delay' = short_delay
          /\ pc' = "static"
          /\ UNCHANGED <<current_realtime_snapshot, new_snapshots_count, call>>
     ELSE LET s == process_gtfs_realtime(raw, now) IN
          /\ current_realtime_snapshot' = Some(s)
          /\ current_delay' = long_delay
          /\ IF RealtimeIsValid(s)
             THEN /\ call' = [key |-> "realtime-snapshot", data |-> RealtimeFrame(s),
                              max_history |-> RealtimeMaxHistory]
                  /\ pc' = "upd_lock"
                  /\ UNCHANGED <<db, new_snapshots_count>>
             ELSE /\ StoreNewRealtimeRow(s)
                  /\ pc' = "static"
                  /\ UNCHANGED call
  /\ UNCHANGED <<pushVars, now, last_static_fetch, current_static_snapshot,
                 snap, owed, published>>

\* should_fetch in maybe_fetch_static.
should_fetch ==
  IF last_static_fetch = Nothing THEN TRUE
  ELSE now - last_static_fetch[1] > static_dt

\* maybe_fetch_static returned False.
StaticNotDue ==
  /\ UNCHANGED <<shutdownVars, gatewayVars, mapVars>>
  /\ pc = "static"
  /\ ~should_fetch
  /\ pc' = "sleep"
  /\ UNCHANGED <<pushVars, now, current_delay, last_static_fetch,
                 current_realtime_snapshot, current_static_snapshot,
                 new_snapshots_count, db, call, ticks, histVars>>

\* maybe_fetch_static: fetch_url(self.static_url) returned None; run sets the
\* delay to 0.
StaticFetchFail ==
  /\ UNCHANGED <<shutdownVars, gatewayVars, mapVars>>
  /\ pc = "static"
  /\ should_fetch
  /\ last_static_fetch' = Some(now)
  /\ current_delay' = 0
  /\ pc' = "sleep"
  /\ UNCHANGED <<pushVars, now, current_realtime_snapshot, current_static_snapshot,
                 new_snapshots_count, db, call, ticks, histVars>>

\* maybe_fetch_static: fetch_url returned raw; store_static_snapshot(raw) up
\* to its call of update_static_snapshot, or to its end when it makes none.
StaticFetch(raw) ==
  /\ UNCHANGED <<shutdownVars, gatewayVars, mapVars>>
  /\ pc = "static"
  /\ should_fetch
  /\ last_static_fetch' = Some(now)
  /\ current_delay' = 0
  /\ IF SameSnapshot(current_static_snapshot, raw)
     THEN /\ db' = Insert(db, "static_snapshots",
                          StaticRow(current_static_snapshot[1], now, EmptyBytes))
          /\ pc' = "sleep"
          /\ UNCHANGED <<current_static_snapshot, call>>
     ELSE LET s == process_gtfs_static(raw, now) IN
          /\ current_static_snapshot' = Some(s)
          /\ IF StaticIsValid(s)
             THEN /\ call' = [key |-> "static-snapshot", data |-> StaticFrame(s),
                              max_history |-> StaticMaxHistory]
                  /\ pc' = "upd_lock"
                  /\ UNCHANGED db
             ELSE /\ db' = Insert(db, "static_snapshots",
                                  StaticRow(s, s.fetched_at, s.gzipped_data))
                  /\ pc' = "sleep"
                  /\ UNCHANGED call
  /\ UNCHANGED <<pushVars, now, current_realtime_snapshot, new_snapshots_count,
                 ticks, histVars>>

\* update_data has returned to store_realtime_snapshot or
\* store_static_snapshot, which writes its row and returns to run.
StoreReturns ==
  /\ IF call.key = "realtime-snapshot"
     THEN /\ StoreNewRealtimeRow(current_realtime_snapshot[1])
          /\ pc' = "static"
     ELSE /\ LET s == current_static_snapshot[1] IN
               db' = Insert(db, "static_snapshots",
                            StaticRow(s, s.fetched_at, s.gzipped_data))
          /\ pc' = "sleep"
          /\ UNCHANGED new_snapshots_count
  /\ call' = NoCall

\* _notify_clients: with self.clients_lock: if not self.clients: return.
NotifyCheck ==
  /\ UNCHANGED <<shutdownVars, gatewayVars, mapVars>>
  /\ pc = "notify"
  /\ IF clients = {}
     THEN StoreReturns
     ELSE /\ pc' = "notify_lock"
          /\ UNCHANGED <<db, new_snapshots_count, call>>
  /\ UNCHANGED <<pushVars, now, current_delay, last_static_fetch,
                 current_realtime_snapshot, current_static_snapshot, ticks, histVars>>

\* What run_coroutine_threadsafe is given, if anything: the topic's last
\* frame, when self.loop is set and running.
Scheduled(key) ==
  IF data[key] # <<>> /\ loop # None /\ loop_started
  THEN <<data[key][Len(data[key])]>> ELSE <<>>

\* _notify_clients: with self.data_lock: data = data[-1]; then the broadcast
\* is scheduled on the stored loop, and update_data returns.
NotifySchedule ==
  /\ UNCHANGED <<shutdownVars, gatewayVars, mapVars>>
  /\ pc = "notify_lock"
  /\ data_lock = "free"
  /\ tasks' = tasks \o Scheduled(call.key)
  /\ StoreReturns
  /\ UNCHANGED <<loop, ctor_done, loop_started, data, data_lock, clients, handler, pos,
                 conn, sent, send_errors, running, now, current_delay,
                 last_static_fetch, current_realtime_snapshot, current_static_snapshot,
                 ticks, histVars>>

\* self.sleep(current_delay)
Sleep ==
  /\ UNCHANGED <<shutdownVars, gatewayVars, mapVars>>
  /\ pc = "sleep"
  /\ now' = now + current_delay
  /\ pc' = "loop"
  /\ UNCHANGED <<pushVars, current_delay, last_static_fetch, current_realtime_snapshot,
                 current_static_snapshot, new_snapshots_count, db, call, ticks,
                 histVars>>

\* self.sleep(current_delay), entered: for _ in range(int(delay)).
SleepBegin ==
  /\ pc = "sleep"
  /\ pc' = "sleeping"
  /\ sleep_left' = current_delay
  /\ UNCHANGED <<pushVars, now, current_delay, last_static_fetch,
                 current_realtime_snapshot, current_static_snapshot,
                 new_snapshots_count, db, call, ticks, histVars,
                 fetcher_running, db_open, ws_server, gatewayVars, mapVars>>

\* sleep: if not self.running: break; time.sleep(1).
SleepSecond ==
  /\ pc = "sleeping"
  /\ sleep_left > 0
  /\ fetcher_running
  /\ now' = now + 1
  /\ sleep_left' = sleep_left - 1
  /\ UNCHANGED <<pushVars, pc, current_delay, last_static_fetch,
                 current_realtime_snapshot, current_static_snapshot,
                 new_snapshots_count, db, call, ticks, histVars,
                 fetcher_running, db_open, ws_server, gatewayVars, mapVars>>

\* sleep returns: the range is exhausted or self.running is False.
SleepReturn ==
  /\ pc = "sleeping"
  /\ sleep_left = 0 \/ ~fetcher_running
  /\ pc' = "loop"
  /\ sleep_left' = 0
  /\ UNCHANGED <<pushVars, now, current_delay, last_static_fetch,
                 current_realtime_snapshot, current_static_snapshot,
                 new_snapshots_count, db, call, ticks, histVars,
                 fetcher_running, db_open, ws_server, gatewayVars, mapVars>>

\* handle_sigint, run by the main thread between two of its instructions:
\* self.running = False, then ws_server.close(), whose ws_thread.join waits
\* out its timeout because the server thread runs loop.run_forever().
handle_sigint ==
  /\ fetcher_running
  /\ pc # "exit"
  /\ fetcher_running' = FALSE
  /\ ws_server' = None
  /\ now' = now + JoinTimeout
  /\ UNCHANGED <<pushVars, pc, current_delay, last_static_fetch,
                 current_realtime_snapshot, current_static_snapshot,
                 new_snapshots_count, db, call, ticks, histVars,
                 sleep_left, db_open, gatewayVars, mapVars>>

\* run: while self.running ends; self.db_conn.close().
RunExit ==
  /\ pc = "loop"
  /\ ~fetcher_running
  /\ pc' = "exit"
  /\ db_open' = FALSE
  /\ UNCHANGED <<pushVars, now, current_delay, last_static_fetch,
                 current_realtime_snapshot, current_static_snapshot,
                 new_snapshots_count, db, call, ticks, histVars,
                 fetcher_running, sleep_left, ws_server, gatewayVars, mapVars>>

\* ------------------------------------------------------------ GtfsServer

\* The position a feed reports for a trip, Nothing when it has none.
ReportedPosition(feed, t) ==
  LET k == IndexOf([i \in 1..Len(feed.vehicles) |-> [key |-> feed.vehicles[i].trip_id]], t)
  IN IF k = 0 THEN Nothing ELSE Some(<<feed.vehicles[k].lat, feed.vehicles[k].lon>>)

\* recent_static_snapshots[-1], or None
LatestStaticData ==
  IF recent_static_snapshots = <<>> THEN Nothing
  ELSE Some(recent_static_snapshots[Len(recent_static_snapshots)])

\* WsOutputMessageVariants.for_version
for_version(message, version) ==
  IF version = 0 THEN message.version0
  ELSE IF version = 1 THEN message.version1
  ELSE message.version1

\* _process_realtime_data for a frame that decodes to `feed`: process_feed
\* under update_lock, from the update of the world model to latest_message,
\* up to the call of _notify_clients with the new pair.  The update thread
\* takes the next frame when _notify_clients has returned.
process_feed(feed) ==
  /\ ingests < MaxIngests
  /\ broadcast = Nothing
  /\ ingests' = ingests + 1
  /\ LET state == RealtimeStateUpdate(realtime_state, feed, LatestStaticData)
         message == from_realtime_state(state)
     IN /\ realtime_state' = state
        /\ latest_message' = Some(message)
        /\ broadcast' = Some([message |-> message, seq |-> ingests + 1,
                               stage |-> "snapshot", clients |-> <<>>,
                               index |-> 1, dead_clients |-> {}])
  /\ track' = [t \in TripIds |->
       LET reported == ReportedPosition(feed, t) IN
         IF reported = Nothing THEN track[t]
         ELSE IF IndexOf(realtime_state.vehicles, t) = 0 THEN reported
         ELSE Append(track[t], reported[1])]
  /\ misses' = [t \in TripIds |->
       IF ReportedPosition(feed, t) # Nothing THEN 0
       ELSE IF misses[t] = -1 THEN -1 ELSE misses[t] + 1]
  /\ born_shape' = [t \in TripIds |->
       IF ReportedPosition(feed, t) # Nothing /\ IndexOf(realtime_state.vehicles, t) = 0
       THEN IF LatestStaticData = Nothing THEN None
            ELSE LatestStaticData[1].static_data.trip_to_shape_id[t]
       ELSE born_shape[t]]
  /\ UNCHANGED <<recent_static_snapshots, static_ingests, minute,
                 pushVars, fetchVars, histVars, shutdownVars, staticRequestVars,
                 ws_clients, ws_pc, ws_conn, ws_holds, ws_received, bad_frames,
                 reconnectVars>>

\* StaticData of a payload whose trips.txt holds the given mapping.
StaticData(trip_to_shape_id) ==
  [trip_to_shape_id |-> trip_to_shape_id,
   shapes |-> {trip_to_shape_id[t] : t \in TripIds} \ {None}]

\* while len(self.recent_static_snapshots) > MAX_RECENT_STATIC_SNAPSHOTS: pop(0)
RECURSIVE TrimSnapshots(_)
TrimSnapshots(list) ==
  IF Len(list) > MAX_RECENT_STATIC_SNAPSHOTS THEN TrimSnapshots(Tail(list)) ELSE list

\* The keys of the snapshots in a static history.
HistoryKeys(history) == {history[i].key : i \in 1..Len(history)}

\* _process_static_data for a frame that parses: the snapshot, keyed by the
\* minute, is appended under update_lock.
_process_static_data(trip_to_shape_id, max_static_ingests) ==
  /\ static_ingests < max_static_ingests
  /\ broadcast = Nothing
  /\ static_ingests' = static_ingests + 1
  /\ LET static_data == StaticData(trip_to_shape_id)
         snapshot == [key |-> <<"key", minute>>, static_data |-> static_data,
                      formatted_json |-> compact_json([shapes |-> static_data.shapes])]
     IN recent_static_snapshots' = TrimSnapshots(Append(recent_static_snapshots, snapshot))
  /\ key_held' = (/\ key_held
                  /\ http_request # Nothing
                  /\ http_request[1].key \in HistoryKeys(recent_static_snapshots'))
  /\ UNCHANGED <<realtime_state, latest_message, ingests, minute, track, misses,
                 born_shape, pushVars, fetchVars, histVars, shutdownVars,
                 http_request, http_response, http_requests, clientVars, reconnectVars>>

\* datetime.datetime.now() of the gateway reaches the next minute.
MinutePasses ==
  /\ minute < MaxMinutes
  /\ minute' = minute + 1
  /\ UNCHANGED <<realtime_state, recent_static_snapshots, latest_message, ingests,
                 static_ingests, track, misses, born_shape,
                 pushVars, fetchVars, histVars, shutdownVars, mapVars>>

\* The keys a map client asks for: the minutes of the run and one more.
RequestKeys == {<<"key", m>> : m \in 0..(MaxMinutes + 1)}

\* The route /static/<key>: the status decides Cache-Control.
static_data(key, json_data, status) ==
  [key |-> key, body |-> json_data, status |-> status,
   cache_control |-> IF status = 200 THEN "public, max-age=31536000" ELSE "no-cache"]

\* GET /static/<key> arrives; handle_static_data_request starts its loop over
\* self.recent_static_snapshots, which it reads without update_lock on the
\* thread of the request.
StaticRequestStart(key) ==
  /\ http_request = Nothing
  /\ http_requests < MaxRequests
  /\ http_requests' = http_requests + 1
  /\ http_request' = Some([key |-> key, index |-> 0])
  /\ key_held' = (key \in HistoryKeys(recent_static_snapshots))
  /\ UNCHANGED <<http_response, gatewayVars, pushVars, fetchVars, histVars,
                 shutdownVars, clientVars, reconnectVars>>

\* One round of `for snapshot in self.recent_static_snapshots`: the list
\* iterator yields the element at its index, if the list has one now, and
\* the key is compared; the response is sent on a match or at the end.
StaticRequestStep ==
  /\ http_request # Nothing
  /\ LET key == http_request[1].key
         index == http_request[1].index
     IN IF index >= Len(recent_static_snapshots)
        THEN /\ http_response' = Some(static_data(key, "Static data not found", 404))
             /\ http_request' = Nothing
        ELSE LET snapshot == recent_static_snapshots[index + 1]
             IN IF snapshot.key = key
                THEN /\ http_response' = Some(static_data(key, snapshot.formatted_json, 200))
                     /\ http_request' = Nothing
                ELSE /\ http_request' = Some([key |-> key, index |-> index + 1])
                     /\ UNCHANGED http_response
  /\ UNCHANGED <<http_requests, key_held, gatewayVars, pushVars, fetchVars,
                 histVars, shutdownVars, clientVars, reconnectVars>>

\* The steps at which a frame can fail: bytes.fromhex, gzip.decompress,
\* the protobuf or zip decoder, and the parser of the decoded feed.
FailingSteps == {"hex", "gunzip", "decode", "parse"}

\* A failing frame that resets what it should have updated.
AfterFailureReset(state) == Nothing

\* What a failing frame leaves of the gateway's data: the exception is raised
\* before anything is assigned.
AfterFailure(state) == state

\* The record of a failing frame: its kind and the number of frames of
\* that kind ingested before it.
BadFrame(kind) ==
  [kind |-> kind, after |-> IF kind = "realtime" THEN ingests ELSE static_ingests]

\* process_message for a realtime frame that fails at the given step: the
\* exception leaves _process_realtime_data before process_feed takes
\* update_lock, or process_feed returns None, None, and _notify_clients is
\* not called.
RealtimeFrameFails(step) ==
  /\ broadcast = Nothing
  /\ Len(bad_frames) < MaxBadFrames
  /\ bad_frames' = Append(bad_frames, BadFrame("realtime"))
  /\ realtime_state' = AfterFailure(realtime_state)
  /\ latest_message' = AfterFailure(latest_message)
  /\ broadcast' = AfterFailure(broadcast)
  /\ UNCHANGED <<recent_static_snapshots, ingests, static_ingests, minute, track,
                 misses, born_shape, pushVars, fetchVars, histVars, shutdownVars,
                 staticRequestVars, ws_clients, ws_pc, ws_conn, ws_holds,
                 ws_received, reconnectVars>>

\* process_message for a static frame that fails at the given step: the
\* exception is caught in _process_static_data before the append.
StaticFrameFails(step) ==
  /\ broadcast = Nothing
  /\ Len(bad_frames) < MaxBadFrames
  /\ bad_frames' = Append(bad_frames, BadFrame("static"))
  /\ recent_static_snapshots' = AfterFailure(recent_static_snapshots)
  /\ UNCHANGED <<realtime_state, latest_message, ingests, static_ingests, minute,
                 track, misses, born_shape, pushVars, fetchVars, histVars,
                 shutdownVars, staticRequestVars, ws_clients, ws_pc, ws_conn,
                 ws_holds, ws_received, broadcast, reconnectVars>>

\* ------------------------------------------------------- map clients

\* handle_websocket, first lines: the client is added under ws_clients_lock.
WsConnect(c) ==
  /\ ws_pc[c] = "none"
  /\ ws_pc' = [ws_pc EXCEPT ![c] = "added"]
  /\ ws_conn' = [ws_conn EXCEPT ![c] = "open"]
  /\ ws_clients' = ws_clients \cup {c}
  /\ UNCHANGED <<ws_holds, ws_received, broadcast, bad_frames, staticRequestVars,
                 gatewayVars, pushVars, fetchVars, histVars, shutdownVars, reconnectVars>>

\* if gtfs_server.latest_message: the argument of the send is evaluated,
\* gtfs_server.latest_message.for_version(version).
WsReadLatest(c) ==
  /\ ws_pc[c] = "added"
  /\ IF latest_message = Nothing
     THEN /\ ws_pc' = [ws_pc EXCEPT ![c] = "receive"]
          /\ UNCHANGED ws_holds
     ELSE /\ ws_pc' = [ws_pc EXCEPT ![c] = "send"]
          /\ ws_holds' = [ws_holds EXCEPT ![c] =
               Some([seq |-> ingests,
                     text |-> for_version(latest_message[1], RouteVersion[c])])]
  /\ UNCHANGED <<ws_clients, ws_conn, ws_received, broadcast, bad_frames,
                 staticRequestVars, gatewayVars, pushVars, fetchVars, histVars,
                 shutdownVars, reconnectVars>>

\* client.ws.send(...) of the latest pair: it raises when the peer is gone,
\* which takes the handler to its finally block.
WsSendLatest(c) ==
  /\ ws_pc[c] = "send"
  /\ IF ws_conn[c] = "open"
     THEN /\ ws_received' = [ws_received EXCEPT ![c] = Append(@, ws_holds[c][1])]
          /\ ws_pc' = [ws_pc EXCEPT ![c] = "receive"]
     ELSE /\ ws_pc' = [ws_pc EXCEPT ![c] = "finally"]
          /\ UNCHANGED ws_received
  /\ ws_holds' = [ws_holds EXCEPT ![c] = Nothing]
  /\ UNCHANGED <<ws_clients, ws_conn, broadcast, bad_frames, staticRequestVars,
                 gatewayVars, pushVars, fetchVars, histVars, shutdownVars, reconnectVars>>

\* The map client goes away.
WsPeerCloses(c) ==
  /\ ws_conn[c] = "open"
  /\ ws_conn' = [ws_conn EXCEPT ![c] = "closed"]
  /\ UNCHANGED <<ws_clients, ws_pc, ws_holds, ws_received, broadcast, bad_frames,
                 staticRequestVars, gatewayVars, pushVars, fetchVars, histVars,
                 shutdownVars, reconnectVars>>

\* ws.receive() raises in the loop of a handler whose peer is gone.
WsReceiveRaises(c) ==
  /\ ws_pc[c] = "receive"
  /\ ws_conn[c] = "closed"
  /\ ws_pc' = [ws_pc EXCEPT ![c] = "finally"]
  /\ UNCHANGED <<ws_clients, ws_conn, ws_holds, ws_received, broadcast, bad_frames,
                 staticRequestVars, gatewayVars, pushVars, fetchVars, histVars,
                 shutdownVars, reconnectVars>>

\* finally: gtfs_server.ws_clients.remove(client), which raises KeyError
\* for a client that is not in the set.
WsFinally(c) ==
  /\ ws_pc[c] = "finally"
  /\ IF c \in ws_clients
     THEN /\ ws_clients' = ws_clients \ {c}
          /\ ws_pc' = [ws_pc EXCEPT ![c] = "done"]
     ELSE /\ ws_pc' = [ws_pc EXCEPT ![c] = "KeyError"]
          /\ UNCHANGED ws_clients
  /\ UNCHANGED <<ws_conn, ws_holds, ws_received, broadcast, bad_frames,
                 staticRequestVars, gatewayVars, pushVars, fetchVars, histVars,
                 shutdownVars, reconnectVars>>

\* The orders in which list(self.ws_clients) can enumerate a set.
Orders(set) ==
  {order \in [1..Cardinality(set) -> set] :
     \A i, j \in 1..Cardinality(set) : i # j => order[i] # order[j]}

\* _notify_clients, first lines: clients = list(self.ws_clients) under
\* ws_clients_lock.  With no client the loop and the pruning do nothing.
NotifySnapshot ==
  /\ broadcast # Nothing
  /\ broadcast[1].stage = "snapshot"
  /\ IF ws_clients = {}
     THEN broadcast' = Nothing
     ELSE \E order \in Orders(ws_clients) :
            broadcast' = Some([broadcast[1] EXCEPT !.stage = "send", !.clients = order])
  /\ UNCHANGED <<ws_clients, ws_pc, ws_conn, ws_holds, ws_received, bad_frames,
                 staticRequestVars, gatewayVars, pushVars, fetchVars, histVars,
                 shutdownVars, reconnectVars>>

\* DeadClient that forgets the client whose send raised.
DeadClientForgotten(client, raised) == {}

\* The client a round of the loop of _notify_clients adds to dead_clients:
\* the one whose send raised.
DeadClient(client, raised) == IF raised THEN {client} ELSE {}

\* One round of `for client in clients`: the send, which raises for a peer
\* that is gone.
NotifySend ==
  /\ broadcast # Nothing
  /\ broadcast[1].stage = "send"
  /\ broadcast[1].index <= Len(broadcast[1].clients)
  /\ LET b == broadcast[1]
         client == b.clients[b.index]
         raised == ws_conn[client] # "open"
     IN /\ ws_received' = [ws_received EXCEPT ![client] =
              IF raised THEN @
              ELSE Append(@, [seq |-> b.seq,
                              text |-> for_version(b.message, RouteVersion[client])])]
        /\ broadcast' = Some([b EXCEPT !.index = b.index + 1,
                                       !.dead_clients = @ \cup DeadClient(client, raised)])
  /\ UNCHANGED <<ws_clients, ws_pc, ws_conn, ws_holds, bad_frames,
                 staticRequestVars, gatewayVars, pushVars, fetchVars, histVars,
                 shutdownVars, reconnectVars>>

\* _notify_clients, last lines: self.ws_clients -= dead_clients under
\* ws_clients_lock.
NotifyPrune ==
  /\ broadcast # Nothing
  /\ broadcast[1].stage = "send"
  /\ broadcast[1].index > Len(broadcast[1].clients)
  /\ ws_clients' = ws_clients \ broadcast[1].dead_clients
  /\ broadcast' = Nothing
  /\ UNCHANGED <<ws_pc, ws_conn, ws_holds, ws_received, bad_frames,
                 staticRequestVars, gatewayVars, pushVars, fetchVars, histVars,
                 shutdownVars, reconnectVars>>

\* ------------------------------------- the connection to the fetcher

\* NextBackoff that doubles the wait.
NextBackoffDoubled(time) == Min(max_backoff_time, time * 2)

\* The wait after the next failure: min(max_backoff_time, backoff_time + 1).
NextBackoff(time) == Min(max_backoff_time, time + 1)

\* websockets.connect raises: the loop of fetch_data_from_fetcher is in its
\* except clause.
ConnectFails ==
  /\ link = "connect"
  /\ Len(link_log) < MaxLinkLog
  /\ link' = "except"
  /\ UNCHANGED <<backoff_time, link_log, feed_history, inbox, inbox_base,
                 staticRequestVars, clientVars,
                 gatewayVars, pushVars, fetchVars, histVars, shutdownVars>>

\* websockets.connect returns a connection: backoff_time = 1, then recv.
\* The fetcher's _handle_client replays the history of the topic to the new
\* connection.
ConnectSucceeds ==
  /\ link = "connect"
  /\ Len(link_log) < MaxLinkLog
  /\ link' = "connected"
  /\ backoff_time' = 1
  /\ link_log' = Append(link_log, 0)
  /\ inbox' = feed_history
  /\ inbox_base' = ingests
  /\ UNCHANGED <<feed_history, staticRequestVars, clientVars, gatewayVars, pushVars, fetchVars,
                 histVars, shutdownVars>>

\* websocket.recv raises on a connection that is lost.
ConnectionLost ==
  /\ link = "connected"
  /\ link' = "except"
  /\ inbox' = <<>>
  /\ UNCHANGED <<backoff_time, link_log, feed_history, inbox_base, staticRequestVars, clientVars,
                 gatewayVars, pushVars, fetchVars, histVars, shutdownVars>>

\* except Exception: asyncio.sleep(backoff_time), the next backoff_time, and
\* back to the top of `while True`.
ReconnectSleep ==
  /\ link = "except"
  /\ link_log' = Append(link_log, backoff_time)
  /\ backoff_time' = NextBackoff(backoff_time)
  /\ link' = "connect"
  /\ UNCHANGED <<feed_history, inbox, inbox_base,
                 staticRequestVars, clientVars, gatewayVars, pushVars, fetchVars,
                 histVars, shutdownVars>>

\* The fetcher publishes a realtime frame that decodes to `feed`:
\* update_data appends it to the history of the topic, and the broadcast
\* sends it on the gateway's connection when there is one.
FetcherPublishes(feed) ==
  /\ Len(feed_history) < MaxRelinkFeeds
  /\ feed_history' = AppendBounded(feed_history, feed, RealtimeMaxHistory)
  /\ inbox' = IF link = "connected" THEN Append(inbox, feed) ELSE inbox
  /\ UNCHANGED <<link, backoff_time, link_log, inbox_base,
                 staticRequestVars, clientVars, gatewayVars, pushVars, fetchVars,
                 histVars, shutdownVars>>

\* message = await websocket.recv(); process_message(message): the next
\* frame of the connection is ingested.
Recv ==
  /\ link = "connected"
  /\ ingests - inbox_base < Len(inbox)
  /\ process_feed(inbox[ingests - inbox_base + 1])

\* ------------------------------------------------------- specifications

\* The server thread and the subscribers.
Serve ==
  \/ \E c \in Subscribers : HandlerStart(c)
  \/ \E c \in Subscribers : Disconnect(c)
  \/ \E c \in Subscribers : ReplayResume(c)
  \/ \E c \in Subscribers : Join(c)
  \/ \E c \in Subscribers : HandlerExit(c)
  \/ NotifyAllClientsAsync

\* The well-formed realtime payloads other than the current one.
FreshRealtime == {raw \in RtPayloadsValid : ~SameSnapshot(current_realtime_snapshot, raw)}

\* The fetcher and the push server with subscribers; the realtime feed
\* answers every fetch with a new well-formed payload, the static feed with
\* the same well-formed payload.
Next ==
  \/ CtorLastLine
  \/ start_ws_server
  \/ \E raw \in FreshRealtime : FetchRealtime(raw, MaxTicks)
  \/ StaticNotDue
  \/ \E raw \in StPayloadsOne : StaticFetch(raw)
  \/ Sleep
  \/ UpdateData
  \/ NotifyCheck
  \/ NotifySchedule
  \/ Serve

Spec == Init /\ [][Next]_vars

\* The state after construction when the server thread stored its loop
\* first (self.loop is left None) or last.
InitConstructed ==
  /\ loop \in {None, "loop"}
  /\ ctor_done = TRUE
  /\ loop_started = TRUE
  /\ data = [k \in Topics |-> <<>>]
  /\ data_lock = "free"
  /\ clients = {}
  /\ handler = [c \in Subscribers |-> "none"]
  /\ pos = [c \in Subscribers |-> 0]
  /\ conn = [c \in Subscribers |-> "none"]
  /\ sent = [c \in Subscribers |-> <<>>]
  /\ send_errors = [c \in Subscribers |-> <<>>]
  /\ tasks = <<>>
  /\ running = None
  /\ pc = "loop"
  /\ now = 0
  /\ current_delay = short_delay
  /\ last_static_fetch = Nothing
  /\ current_realtime_snapshot = Nothing
  /\ current_static_snapshot = Nothing
  /\ new_snapshots_count = 0
  /\ db = <<setup_database>>
  /\ call = NoCall
  /\ ticks = 0
  /\ snap = [c \in Subscribers |-> [k \in Topics |-> <<>>]]
  /\ owed = [c \in Subscribers |-> {}]
  /\ published = [k \in Topics |-> <<>>]
  /\ rt_fetched = <<>>
  /\ fetcher_running = TRUE
  /\ sleep_left = 0
  /\ db_open = TRUE
  /\ ws_server = "server"
  /\ realtime_state = [vehicles |-> <<>>, timestamp |-> 0, latest_static_key |-> Nothing]
  /\ recent_static_snapshots = <<>>
  /\ latest_message = Nothing
  /\ ingests = 0
  /\ static_ingests = 0
  /\ minute = 0
  /\ track = [t \in TripIds |-> <<>>]
  /\ misses = [t \in TripIds |-> -1]
  /\ born_shape = [t \in TripIds |-> None]
  /\ http_request = Nothing
  /\ http_response = Nothing
  /\ http_requests = 0
  /\ key_held = FALSE
  /\ ws_clients = {}
  /\ ws_pc = [c \in MapClients |-> "none"]
  /\ ws_conn = [c \in MapClients |-> "none"]
  /\ ws_holds = [c \in MapClients |-> Nothing]
  /\ ws_received = [c \in MapClients |-> <<>>]
  /\ broadcast = Nothing
  /\ bad_frames = <<>>
  /\ link = "connect"
  /\ backoff_time = 1
  /\ link_log = <<>>
  /\ feed_history = <<>>
  /\ inbox = <<>>
  /\ inbox_base = 0

\* The fetcher with no subscriber connecting; the feeds fail, repeat
\* themselves and send payloads that do not decode.
NextFeeds ==
  \/ FetchRealtimeFail(MaxTicksFeeds)
  \/ \E raw \in RtPayloads : FetchRealtime(raw, MaxTicksFeeds)
  \/ StaticNotDue
  \/ StaticFetchFail
  \/ \E raw \in StPayloads : StaticFetch(raw)
  \/ Sleep
  \/ UpdateData
  \/ NotifyCheck

SpecFeeds == InitConstructed /\ [][NextFeeds]_vars

\* The fetcher with no subscriber connecting, over longer runs of
\* well-formed payloads.
NextArchive ==
  \/ \E raw \in RtPayloadsValid : FetchRealtime(raw, MaxTicksArchive)
  \/ StaticNotDue
  \/ \E raw \in StPayloadsValid : StaticFetch(raw)
  \/ Sleep
  \/ UpdateData
  \/ NotifyCheck

\* Construction left self.loop set.
InitArchive == InitConstructed /\ loop = "loop"

SpecArchive == InitArchive /\ [][NextArchive]_vars

\* The fetcher with no subscriber connecting, a shutdown signal arriving at
\* any point of the main thread.
NextShutdown ==
  \/ FetchRealtimeFail(MaxTicksShutdown)
  \/ \E raw \in RtPayloadsValid : FetchRealtime(raw, MaxTicksShutdown)
  \/ StaticNotDue
  \/ StaticFetchFail
  \/ \E raw \in StPayloadsOne : StaticFetch(raw)
  \/ UpdateData
  \/ NotifyCheck
  \/ SleepBegin
  \/ SleepSecond
  \/ SleepReturn
  \/ handle_sigint
  \/ RunExit

SpecShutdown == InitArchive /\ [][NextShutdown]_vars

\* The gateway ingesting the frames it receives from the fetcher, one after
\* the other (fetch_data_from_fetcher handles them on one thread).
NextGateway ==
  \/ \E feed \in ParsedFeeds(ingests + 1) : process_feed(feed)
  \/ \E trip_to_shape_id \in TripToShapeIds :
       _process_static_data(trip_to_shape_id, MaxStaticIngests)
  \/ NotifySnapshot

SpecGateway == InitArchive /\ [][NextGateway]_vars

\* The feeds of the runs with map clients: the second trip alone.
MapFeeds(ts) ==
  IF ts > MaxMapIngests THEN {}
  ELSE {feed \in ParsedFeeds(ts) :
          /\ Len(feed.vehicles) = 1
          /\ feed.vehicles[1].trip_id = "t2"}

\* The static payloads of the runs with map clients.
MapTripToShapeIds == {m \in TripToShapeIds : m["t2"] # None}

\* The gateway with map clients on both routes that connect and go away
\* while frames arrive, some of which fail to decode.
NextMap ==
  \/ \E feed \in MapFeeds(ingests + 1) : process_feed(feed)
  \/ \E step \in FailingSteps : RealtimeFrameFails(step)
  \/ \E step \in FailingSteps : StaticFrameFails(step)
  \/ \E trip_to_shape_id \in MapTripToShapeIds :
       _process_static_data(trip_to_shape_id, MaxMapStaticIngests)
  \/ NotifySnapshot
  \/ NotifySend
  \/ NotifyPrune
  \/ \E c \in MapClients : WsConnect(c)
  \/ \E c \in MapClients : WsReadLatest(c)
  \/ \E c \in MapClients : WsSendLatest(c)
  \/ \E c \in MapClients : WsPeerCloses(c)
  \/ \E c \in MapClients : WsReceiveRaises(c)
  \/ \E c \in MapClients : WsFinally(c)

SpecMap == InitArchive /\ [][NextMap]_vars

\* The gateway's client of the fetcher, whose connections fail and break;
\* a sleep that was started ends.
NextReconnect ==
  \/ ConnectFails
  \/ ConnectSucceeds
  \/ ConnectionLost
  \/ ReconnectSleep

SpecReconnect == InitArchive /\ [][NextReconnect]_vars /\ WF_vars(ReconnectSleep)

\* The feeds the fetcher publishes in the runs with reconnections: one
\* vehicle, on the first trip.
RelinkFeeds(ts) ==
  {feed \in ParsedFeeds(ts) :
     /\ Len(feed.vehicles) = 1
     /\ feed.vehicles[1].trip_id = "t1"}

\* The gateway receiving the fetcher's realtime frames over a connection
\* that is lost and made again.
NextRelink ==
  \/ \E feed \in RelinkFeeds(Len(feed_history) + 1) : FetcherPublishes(feed)
  \/ ConnectSucceeds
  \/ ConnectionLost
  \/ ReconnectSleep
  \/ Recv
  \/ NotifySnapshot

SpecRelink == InitArchive /\ [][NextRelink]_vars

\* The gateway ingesting static frames over some minutes while map clients
\* request static bundles.
NextStatic ==
  \/ \E trip_to_shape_id \in TripToShapeIds :
       _process_static_data(trip_to_shape_id, MaxStaticIngestsServed)
  \/ MinutePasses
  \/ \E key \in RequestKeys : StaticRequestStart(key)
  \/ StaticRequestStep

SpecStatic == InitArchive /\ [][NextStatic]_vars

\* ------------------------------------------------------------- claims

Range(seq) == {seq[i] : i \in 1..Len(seq)}

IsPrefix(p, seq) == Len(p) <= Len(seq) /\ p = SubSeq(seq, 1, Len(p))

\* The last n elements of seq.
LastN(seq, n) == SubSeq(seq, Max(1, Len(seq) - n + 1), Len(seq))

Occurrences(x, seq) == Cardinality({i \in 1..Len(seq) : seq[i] = x})

\* The rows of the realtime table, over the archive files in order.
RECURSIVE RealtimeRowsFrom(_)
RealtimeRowsFrom(i) ==
  IF i > Len(db) THEN <<>> ELSE db[i].snapshots \o RealtimeRowsFrom(i + 1)

RealtimeRows == RealtimeRowsFrom(1)

\* The rows of a realtime table that carry a payload.
NewRows(rows) == SelectSeq(rows, LAMBDA r : r.gzipped_data # EmptyBytes)

\* What a subscriber's replay is to send: the static history, then the
\* realtime history, as they were when the replay began.
ExpectedReplay(c) == snap[c]["static-snapshot"] \o snap[c]["realtime-snapshot"]

\* C1: a subscriber whose connection is open has been sent, first of all and
\* in this order, the static history and then the realtime history as they
\* were when its replay began; whatever else it has been sent follows them.
\* While the replay is suspended it has been sent a prefix of them.
C1_ReplayBeforeLive ==
  \A c \in Subscribers :
    conn[c] = "open" =>
      /\ handler[c] = "suspended" => IsPrefix(sent[c], ExpectedReplay(c))
      /\ handler[c] = "join" => sent[c] = ExpectedReplay(c)
      /\ handler[c] = "listen" => IsPrefix(ExpectedReplay(c), sent[c])

\* A subscriber that was replayed frames of both topics and then sent a
\* frame published later.
C1_Witness ==
  \E c \in Subscribers :
    /\ conn[c] = "open"
    /\ handler[c] = "listen"
    /\ snap[c]["static-snapshot"] # <<>>
    /\ snap[c]["realtime-snapshot"] # <<>>
    /\ Len(sent[c]) > Len(ExpectedReplay(c))
    /\ sent[c][Len(sent[c])] \in owed[c]

\* The update_data call that published frame f has returned and no
\* broadcast of f is still scheduled.
Settled(f) ==
  /\ f \notin Range(tasks)
  /\ ~(pc \in {"notify", "notify_lock"} /\ call.data = f)

\* C2: a subscriber that was in the broadcast set when a frame was published
\* and is still connected is never sent that frame twice, and has been sent
\* it once when the publish has returned and its broadcast has run.
C2_ExactlyOnce ==
  \A c \in Subscribers :
    (c \in clients /\ conn[c] = "open") =>
      \A f \in owed[c] :
        /\ Occurrences(f, sent[c]) <= 1
        /\ Settled(f) => Occurrences(f, sent[c]) = 1

\* C3: update_data never waits for data_lock while a handler that is sending
\* the replay to a subscriber holds it.
C3_PublishNeverWaits ==
  ~(pc \in {"upd_lock", "notify_lock"} /\ data_lock \in Subscribers)

\* C4: in a broadcast, a subscriber whose send raises is removed from the
\* broadcast set, and every other subscriber of the set is sent the frame.
C4_SendErrorDropsSubscriber ==
  [][\A c \in clients :
       Len(send_errors'[c]) > Len(send_errors[c]) =>
         /\ c \notin clients'
         /\ \A d \in clients \ {c} :
              conn[d] = "open" => sent'[d] = Append(sent[d], Head(tasks))]_vars

\* C5: the static history holds at most 3 frames and the realtime history at
\* most 10, and each is the most recently published frames of its topic, in
\* publish order.
C5_BoundedHistory ==
  /\ Len(data["static-snapshot"]) <= 3
  /\ Len(data["realtime-snapshot"]) <= 10
  /\ data["static-snapshot"] = LastN(published["static-snapshot"], 3)
  /\ data["realtime-snapshot"] = LastN(published["realtime-snapshot"], 10)

\* Both histories have discarded a frame.
C5_Witness ==
  /\ Len(published["static-snapshot"]) > 3
  /\ Len(published["realtime-snapshot"]) > 10
  /\ pc = "sleep"

\* The i-th realtime payload fetched equals the one fetched before it.
Repeats(i) == i > 1 /\ rt_fetched[i] = rt_fetched[i - 1]

\* The frames the realtime payloads fetched so far are to have published:
\* one for each payload that does not repeat its predecessor and decodes.
RECURSIVE FramesDue(_)
FramesDue(n) ==
  IF n = 0 THEN <<>>
  ELSE IF ~Repeats(n) /\ rt_fetched[n][1] = "pb"
       THEN Append(FramesDue(n - 1), Hex(Gzip(rt_fetched[n])))
       ELSE FramesDue(n - 1)

PublishedRealtime ==
  [i \in 1..Len(published["realtime-snapshot"]) |->
     published["realtime-snapshot"][i].gzipped_data]

\* C6: the realtime rows follow the payloads fetched, one row each: a payload
\* equal to its predecessor gets a row with empty gzipped_data, any other a
\* row with its gzipped bytes; and the frames published to realtime-snapshot
\* are those of the payloads that do not repeat their predecessor (none for a
\* duplicate, at most one for a run of equal payloads).
C6_DedupRows ==
  LET rows == RealtimeRows
      n == Len(rt_fetched)
      storing == pc \in {"upd_lock", "notify", "notify_lock"}
                   /\ call.key = "realtime-snapshot"
  IN /\ Len(rows) = IF storing THEN n - 1 ELSE n
     /\ \A i \in 1..Len(rows) :
          rows[i].gzipped_data =
            IF Repeats(i) THEN EmptyBytes ELSE Gzip(rt_fetched[i])
     /\ PublishedRealtime =
          IF pc = "upd_lock" /\ call.key = "realtime-snapshot"
          THEN FramesDue(n - 1) ELSE FramesDue(n)

\* Three fetches in a row returned the same decodable payload, and their
\* rows are written.
C6_Witness ==
  \E i \in 1..Len(rt_fetched) :
    /\ i + 2 <= Len(RealtimeRows)
    /\ rt_fetched[i][1] = "pb"
    /\ ~Repeats(i)
    /\ Repeats(i + 1)
    /\ Repeats(i + 2)

\* C7: new_snapshots_count is the number of rows with a payload in the open
\* file's realtime table and stays below MAX_SNAPSHOT_COUNT; a file was
\* closed exactly when that number reached MAX_SNAPSHOT_COUNT, by the row
\* that made it so.  Rows with empty gzipped_data and static rows do not
\* count.
C7_RotationOnNewRows ==
  /\ new_snapshots_count = Len(NewRows(db[Len(db)].snapshots))
  /\ new_snapshots_count < MAX_SNAPSHOT_COUNT
  /\ \A i \in 1..(Len(db) - 1) :
       LET rows == db[i].snapshots IN
         /\ Len(NewRows(rows)) = MAX_SNAPSHOT_COUNT
         /\ rows[Len(rows)].gzipped_data # EmptyBytes

\* Two rotations, the second of a file that also holds a row with empty
\* gzipped_data and a static row; the open file has rows of both tables.
C7_Witness ==
  /\ Len(db) = 3
  /\ Len(db[2].snapshots) > MAX_SNAPSHOT_COUNT
  /\ db[2].static_snapshots # <<>>
  /\ db[3].static_snapshots # <<>>
  /\ new_snapshots_count > 0
  /\ Len(db[3].snapshots) > new_snapshots_count

\* C8 as stated: every file's realtime table holds fewer than
\* MAX_SNAPSHOT_COUNT rows, duplicates included.
C8_TotalRowsBelowMax ==
  \A i \in 1..Len(db) : Len(db[i].snapshots) < MAX_SNAPSHOT_COUNT

\* C8 as amended: every file's realtime table holds at most
\* MAX_SNAPSHOT_COUNT rows with a payload, whatever its number of rows.
C8_NewRowsAtMostMax ==
  \A i \in 1..Len(db) : Len(NewRows(db[i].snapshots)) <= MAX_SNAPSHOT_COUNT

\* A closed file whose realtime table holds more than MAX_SNAPSHOT_COUNT rows.
C8_Witness ==
  \E i \in 1..(Len(db) - 1) :
    /\ Len(db[i].snapshots) > MAX_SNAPSHOT_COUNT
    /\ Len(NewRows(db[i].snapshots)) = MAX_SNAPSHOT_COUNT

\* A realtime payload parses; every row of a static payload's calendar.txt
\* parses.
RealtimeDecodes(raw) == raw[1] = "pb"
StaticDecodes(raw) == raw[1] = "zip" /\ \A i \in 1..Len(raw[2]) : raw[2][i].ok

\* The payload a row or a frame carries.
Gunzip(bytes) == bytes[2]
Unhex(text) == text[2]

\* C9: a payload that fails to decode is archived with its gzipped bytes and
\* the invalid sentinel, and no frame of either history carries one.
C9_UndecodableNotPublished ==
  /\ \A i \in 1..Len(db) :
       /\ \A j \in 1..Len(db[i].snapshots) :
            LET r == db[i].snapshots[j] IN
              (r.gzipped_data # EmptyBytes /\ ~RealtimeDecodes(Gunzip(r.gzipped_data)))
                => r.snapshot_at = INVALID_TIMESTAMP
       /\ \A j \in 1..Len(db[i].static_snapshots) :
            LET r == db[i].static_snapshots[j] IN
              (r.gzipped_data # EmptyBytes /\ ~StaticDecodes(Gunzip(r.gzipped_data)))
                => r.calendar_date = INVALID_DATE
  /\ \A f \in Range(data["realtime-snapshot"]) :
       RealtimeDecodes(Gunzip(Unhex(f.gzipped_data)))
  /\ \A f \in Range(data["static-snapshot"]) :
       StaticDecodes(Gunzip(Unhex(f.gzipped_data)))

\* C10: a loop iteration does not reach its sleep with the static fetch due.
C10_StaticFetchedWhenDue == pc = "sleep" => ~should_fetch

\* C11: every failed realtime fetch is followed by a wait of at least 1 s,
\* and by a longer wait than the one before it unless the wait is the cap.
C11_BackoffGrowsFromOneSecond ==
  [][FetchRealtimeFail(MaxTicksFeeds) =>
       /\ current_delay' >= 1
       /\ (current_delay' > current_delay \/ current_delay' = MaxBackoff)]_vars

\* C12: once the shutdown signal has been handled, the loop starts no fetch
\* of either feed and its sleep waits no further second.
C12_NoFetchAfterShutdown ==
  [][~fetcher_running =>
       /\ ticks' = ticks
       /\ last_static_fetch' = last_static_fetch
       /\ now' = now]_vars

\* The vehicles of the world model.
Vehicles == Range(realtime_state.vehicles)

\* The positions a vehicle stores, in list order.
Stored(v) == [i \in 1..Len(v.lat) |-> <<v.lat[i], v.lon[i]>>]

\* The lists hold the most recent of the positions ingested for the vehicle,
\* at most MAX_TRAJECTORY_LENGTH of them, in either order.
KeepsMostRecent(v) ==
  /\ Len(v.lat) = Len(v.lon)
  /\ Len(v.lat) = Min(Len(track[v.key]), MAX_TRAJECTORY_LENGTH)
  /\ LET kept == LastN(track[v.key], MAX_TRAJECTORY_LENGTH)
     IN \/ Stored(v) = kept
        \/ Stored(v) = [i \in 1..Len(kept) |-> kept[Len(kept) + 1 - i]]

\* C13: every vehicle has as many latitudes as longitudes, at most
\* MAX_TRAJECTORY_LENGTH of them, they are the most recent positions ingested
\* for it, and the first entry of the lists (index 0) is the most recent one.
C13_HeadIsMostRecent ==
  \A v \in Vehicles :
    /\ KeepsMostRecent(v)
    /\ Stored(v)[1] = track[v.key][Len(track[v.key])]

\* The vehicle of a trip in the world model.
VehicleOf(t) == realtime_state.vehicles[IndexOf(realtime_state.vehicles, t)]

\* C14: every vehicle has no_update_counter < 30 (NoUpdateLimit); a trip has
\* a vehicle exactly when a feed contained it and fewer than 30 feeds
\* ingested since the last such feed did not, and its vehicle's counter is
\* the number of those feeds.
C14_EvictedAtLimit ==
  /\ \A v \in Vehicles : v.no_update_counter < NoUpdateLimit
  /\ \A t \in TripIds :
       /\ IndexOf(realtime_state.vehicles, t) # 0
            <=> (misses[t] >= 0 /\ misses[t] < NoUpdateLimit)
       /\ IndexOf(realtime_state.vehicles, t) # 0
            => VehicleOf(t).no_update_counter = misses[t]

\* A trip whose vehicle was removed at its 30th feed without it, while the
\* vehicle of another trip is one feed short of that.
C14_Witness ==
  \E t, u \in TripIds :
    /\ misses[t] = NoUpdateLimit
    /\ IndexOf(realtime_state.vehicles, t) = 0
    /\ IndexOf(realtime_state.vehicles, u) # 0
    /\ VehicleOf(u).no_update_counter = NoUpdateLimit - 1

\* The stored past positions of a vehicle, by index, that are more than
\* DIRECTION_THRESHOLD_METERS from its newest position (the last entry).
FarPast(v) ==
  LET n == Len(v.lat) IN
    {i \in 1..(n - 1) :
       haversine_exceeds(v.lat[n], v.lon[n], v.lat[i], v.lon[i], DIRECTION_THRESHOLD_METERS)}

\* The most recent of them.
MostRecentFar(v) == CHOOSE i \in FarPast(v) : \A j \in FarPast(v) : j <= i

\* C15: a vehicle's heading is null iff no stored past position is more than
\* 20 m from its newest position; otherwise it is the bearing from the most
\* recent such past position to the newest position.
C15_HeadingFromMostRecentFar ==
  \A v \in Vehicles :
    LET n == Len(v.lat) IN
      /\ v.direction_radians = Nothing <=> FarPast(v) = {}
      /\ FarPast(v) # {} =>
           LET i == MostRecentFar(v)
           IN v.direction_radians = arrow_angle(v.lat[i], v.lon[i], v.lat[n], v.lon[n])

\* Vehicles with a heading: one whose latest past position is within 20 m
\* and an older one is not, and one with two past positions beyond 20 m that
\* give different bearings; and a vehicle with past positions and no heading.
C15_Witness ==
  /\ \E v \in Vehicles :
       /\ Len(v.lat) = 3
       /\ \/ FarPast(v) = {1}
          \/ /\ FarPast(v) = {1, 2}
             /\ arrow_angle(v.lat[1], v.lon[1], v.lat[3], v.lon[3])
                  # arrow_angle(v.lat[2], v.lon[2], v.lat[3], v.lon[3])
       /\ v.direction_radians # Nothing
  /\ \E v \in Vehicles : Len(v.lat) >= 2 /\ v.direction_radians = Nothing

\* trip_to_shape_id[t] of the most recent static snapshot of the history:
\* None when there is no snapshot or no mapping.
LatestShapeId(t) ==
  IF recent_static_snapshots = <<>> THEN None
  ELSE recent_static_snapshots[Len(recent_static_snapshots)].static_data.trip_to_shape_id[t]

\* C16: a realtime ingest gives a vehicle it creates the shape_id that the
\* most recent static snapshot maps its trip to (null without one), and
\* gives a vehicle it updates that shape_id when there is one: a mapping
\* ingested after the vehicle was created is attached by the next feed that
\* contains the trip.
C16_StaticJoin ==
  [][ingests' = ingests + 1 =>
       \A i \in 1..Len(realtime_state'.vehicles) :
         LET v == realtime_state'.vehicles[i] IN
           v.no_update_counter = 0 =>
             IF IndexOf(realtime_state.vehicles, v.key) = 0
             THEN v.shape_id = LatestShapeId(v.key)
             ELSE LatestShapeId(v.key) # None => v.shape_id = LatestShapeId(v.key)]_vars

\* A vehicle created without a shape_id that has been given one since, next
\* to a vehicle created with one.
C16_Witness ==
  /\ \E v \in Vehicles : born_shape[v.key] = None /\ v.shape_id # None
  /\ \E v \in Vehicles : born_shape[v.key] # None /\ v.shape_id = born_shape[v.key]

\* json.loads of an encoded message.
JsonLoads(text) == text[2]

\* The v0 and v1 messages of the latest pair, decoded.
LatestV0 == JsonLoads(latest_message[1].version0)
LatestV1 == JsonLoads(latest_message[1].version1)

\* The vehicles whose trip the last feed ingested contained, in dict order.
InLastFeed == SelectSeq(realtime_state.vehicles, LAMBDA v : misses[v.key] = 0)

\* The latitudes (k = 1) or longitudes (k = 2) of a list of positions.
Coordinate(positions, k) == [i \in 1..Len(positions) |-> positions[i][k]]

\* C17: the v0 message lists the vehicles of the trips that the ingested
\* feed contained and no other, each with the most recent positions ingested
\* for it, at most 6 (TRAJECTORY_OUTPUT_LENGTH), the oldest first.
C17_V0ListsFreshVehicles ==
  latest_message # Nothing =>
    /\ Len(LatestV0) = Len(InLastFeed)
    /\ \A i \in 1..Len(InLastFeed) :
         LET recent == LastN(track[InLastFeed[i].key], TRAJECTORY_OUTPUT_LENGTH)
         IN /\ LatestV0[i].routeId = RouteIds[InLastFeed[i].key]
            /\ LatestV0[i].lat = Coordinate(recent, 1)
            /\ LatestV0[i].lon = Coordinate(recent, 2)

\* A message that lists one vehicle, with fewer positions than were ingested
\* for it and two different ones among them, while the world model holds a
\* second vehicle that the feed did not contain.
C17_Witness ==
  /\ latest_message # Nothing
  /\ Len(LatestV0) = 1
  /\ Len(realtime_state.vehicles) = 2
  /\ Len(track[InLastFeed[1].key]) > TRAJECTORY_OUTPUT_LENGTH
  /\ LatestV0[1].lat[1] # LatestV0[1].lat[2]

\* A list in the opposite order.
Reversed(list) == [i \in 1..Len(list) |-> list[Len(list) + 1 - i]]

\* C18: in the v1 message each list of compressedLats / compressedLons is
\* newest-first: its first element encodes the newest position as an offset
\* from ref_lat / ref_lon, and each following element is the rolling delta to
\* the next older position, for at most 6 (TRAJECTORY_OUTPUT_LENGTH) positions.
C18_CompressedNewestFirst ==
  latest_message # Nothing =>
    \A i \in 1..Len(InLastFeed) :
      LET newest_first ==
            Reversed(LastN(track[InLastFeed[i].key], TRAJECTORY_OUTPUT_LENGTH))
      IN /\ LatestV1.vehicles.compressedLats[i]
              = compress_lats(Coordinate(newest_first, 1))
         /\ LatestV1.vehicles.compressedLons[i]
              = compress_lons(Coordinate(newest_first, 2))

\* C19: the v0 and v1 strings kept as the latest pair are encoded from the
\* same state of the world model, the one the ingest left, and describe the
\* same vehicles in the same order: the i-th vehicle of v0 has the i-th
\* routeIds and directionDegrees entries of v1, and its timestamp is
\* v1.timestamp minus the i-th entry of v1.vehicles.timestamps.
C19_PairFromSameState ==
  latest_message # Nothing =>
    /\ LatestV0 = to_json_v0(realtime_state)
    /\ LatestV1 = to_json_v1(realtime_state)
    /\ Len(LatestV1.vehicles.routeIds) = Len(LatestV0)
    /\ Len(LatestV1.vehicles.timestamps) = Len(LatestV0)
    /\ Len(LatestV1.vehicles.directionDegrees) = Len(LatestV0)
    /\ \A i \in 1..Len(LatestV0) :
         /\ LatestV0[i].routeId = LatestV1.vehicles.routeIds[i]
         /\ LatestV0[i].directionDegrees = LatestV1.vehicles.directionDegrees[i]
         /\ LatestV0[i].timestamp
              = LatestV1.timestamp - LatestV1.vehicles.timestamps[i]

\* A pair that lists two vehicles of different routes, one reported before
\* the feed's timestamp and one with a heading, after an earlier ingest.
C19_Witness ==
  /\ latest_message # Nothing
  /\ ingests >= 2
  /\ Len(LatestV0) = 2
  /\ LatestV0[1].routeId # LatestV0[2].routeId
  /\ \E i \in 1..2 : LatestV1.vehicles.timestamps[i] # 0
  /\ \E i \in 1..2 : LatestV0[i].directionDegrees # Nothing

\* The k-th coordinate rebuilt from a compressed list: the reference plus
\* the sum of the first k deltas, in units of 10^-7 degrees.
RECURSIVE Reconstructed(_, _, _)
Reconstructed(ref_value, deltas, k) ==
  IF k = 0 THEN ref_value
  ELSE Reconstructed(ref_value, deltas, k - 1) + CoordUnits * deltas[k]

\* Every coordinate rebuilt from the compressed list is within 5 * 10^-7
\* degrees of the coordinate that was compressed.
WithinHalfStep(ref_value, deltas, values) ==
  /\ Len(deltas) = Len(values)
  /\ \A k \in 1..Len(values) :
       2 * Abs(Reconstructed(ref_value, deltas, k) - values[k]) <= CoordUnits

\* C20: compressing a sequence of coordinates with the delta encoder and
\* rebuilding it by cumulative summation from the reference reproduces every
\* coordinate to within 5 * 10^-7 degrees, for negative as well as positive
\* deltas; stated of the coordinates of every vehicle of the latest pair.
C20_RoundTripWithinHalfStep ==
  latest_message # Nothing =>
    \A i \in 1..Len(LatestV0) :
      /\ WithinHalfStep(ref_lat, LatestV1.vehicles.compressedLats[i], LatestV0[i].lat)
      /\ WithinHalfStep(ref_lon, LatestV1.vehicles.compressedLons[i], LatestV0[i].lon)

\* The bundles the static history stores under a key.
StoredBundles(history, key) ==
  {history[i].formatted_json : i \in {j \in 1..Len(history) : history[j].key = key}}

\* A response to GET /static/<key> is sent in this step.
Responds == http_request # Nothing /\ http_request' = Nothing

\* C21: the static history never holds more than 3 snapshots, and a GET
\* /static/<key> is answered 200, with the stored bundle and Cache-Control
\* 'public, max-age=31536000', if and only if the key is that of a snapshot
\* in the history; otherwise 404 with 'no-cache'.  A key that enters or
\* leaves the history while the request is served may get either answer: a
\* key held by the history all along is answered 200, and an answer of 200
\* is for a key in the history.
C21_StaticGet ==
  /\ [](Len(recent_static_snapshots) <= 3)
  /\ [][Responds =>
         LET r == http_response'[1] IN
           /\ key_held => r.status = 200
           /\ r.status = 200 =>
                /\ r.key \in HistoryKeys(recent_static_snapshots)
                /\ r.body \in StoredBundles(recent_static_snapshots, r.key)
                /\ r.cache_control = "public, max-age=31536000"
           /\ r.status # 200 => r.status = 404 /\ r.cache_control = "no-cache"]_vars

\* C22: a map client is sent the messages in the order the gateway produced
\* them: never an older update of the world model after a newer one, also
\* when the send of the latest pair at connect time races with a broadcast.
C22_SentInProductionOrder ==
  \A c \in MapClients :
    \A i, j \in 1..Len(ws_received[c]) :
      i < j => ws_received[c][i].seq <= ws_received[c][j].seq

\* A round of the loop of _notify_clients, and the end of its pass.
SendsInPass ==
  /\ broadcast # Nothing /\ broadcast' # Nothing
  /\ broadcast[1].stage = "send"
  /\ broadcast'[1].index = broadcast[1].index + 1
PassEnds ==
  /\ broadcast # Nothing /\ broadcast' = Nothing
  /\ broadcast[1].stage = "send"

\* The string of a pair for the route of a client: v0 on /ws, v1 on /ws-v1.
StringFor(c, message) == IF c = "m0" THEN message.version0 ELSE message.version1

\* C23: in a broadcast, every client of the snapshot whose peer is there is
\* sent the string of its route in that pass, whether or not the send to a
\* client before it raised; a client whose send raises is out of the client
\* set when the pass is over.
C23_BroadcastSurvivesSendFailure ==
  [][/\ SendsInPass =>
         LET b == broadcast[1]
             client == b.clients[b.index]
         IN IF ws_conn[client] = "open"
            THEN ws_received'[client] =
                   Append(ws_received[client],
                          [seq |-> b.seq, text |-> StringFor(client, b.message)])
            ELSE /\ ws_received'[client] = ws_received[client]
                 /\ client \in broadcast'[1].dead_clients
     /\ PassEnds =>
         LET b == broadcast[1]
         IN /\ b.index = Len(b.clients) + 1
            /\ \A i \in 1..Len(b.clients) :
                 \/ /\ b.clients[i] \in b.dead_clients
                    /\ b.clients[i] \notin ws_clients'
                 \/ /\ b.clients[i] \notin b.dead_clients
                    /\ \E k \in 1..Len(ws_received[b.clients[i]]) :
                         ws_received[b.clients[i]][k] =
                           [seq |-> b.seq, text |-> StringFor(b.clients[i], b.message)]
            /\ ws_clients' = ws_clients \ b.dead_clients]_vars

\* The pass over two clients is over: the send to the first one raised, the
\* second one was sent the string of its route, and the first one is still
\* in the client set, to be pruned.
C23_Witness ==
  /\ broadcast # Nothing
  /\ broadcast[1].stage = "send"
  /\ Len(broadcast[1].clients) = 2
  /\ broadcast[1].index = 3
  /\ broadcast[1].dead_clients = {broadcast[1].clients[1]}
  /\ broadcast[1].clients[1] \in ws_clients
  /\ LET c == broadcast[1].clients[2]
     IN /\ ws_received[c] # <<>>
        /\ ws_received[c][Len(ws_received[c])] =
             [seq |-> broadcast[1].seq, text |-> StringFor(c, broadcast[1].message)]
  /\ broadcast[1].message.version0 # broadcast[1].message.version1

\* A frame of the given kind fails in this step.
FrameFails(kind) ==
  /\ Len(bad_frames') = Len(bad_frames) + 1
  /\ bad_frames'[Len(bad_frames')].kind = kind

FetchedIdentical ==
  /\ Len(rt_fetched) >= 2
  /\ rt_fetched[Len(rt_fetched)] = rt_fetched[Len(rt_fetched) - 1]

\* The main thread of the fetcher reaches the sleep at the end of a tick.
ReachesSleep == pc # "sleep" /\ pc' = "sleep"

\* C25: the delay slept at the end of a tick is min(2 * previous delay, 60)
\* if the realtime fetch failed; else 0 if a static download was attempted
\* on the tick; else 1 if the realtime payload was byte-identical to the
\* one stored before, and max(1, realtime_dt - 1) if it was new.
C25_DelayOfTick ==
  [][ReachesSleep =>
       IF pc = "loop"
       THEN current_delay' = Min(2 * current_delay, 60)
       ELSE IF pc = "static" /\ ~should_fetch
       THEN current_delay' = IF FetchedIdentical THEN 1 ELSE Max(1, realtime_dt - 1)
       ELSE current_delay' = 0]_vars

\* The sleep is reached with a delay of 4 s: a payload identical to the
\* stored one set the delay to 1 s, and two failed fetches doubled it twice.
C25_Witness ==
  /\ pc = "sleep"
  /\ current_delay = 4
  /\ ticks >= 4
  /\ FetchedIdentical

\* The vehicle of trip t in a world model; only used where there is one.
VehicleIn(state, t) == state.vehicles[IndexOf(state.vehicles, t)]

\* The trips with a vehicle before and after this step.
TripsKept ==
  {t \in TripIds : /\ IndexOf(realtime_state.vehicles, t) # 0
                   /\ IndexOf(realtime_state'.vehicles, t) # 0}

\* C26 as stated: a realtime ingest changes the shape_id of an existing
\* vehicle only when that shape_id is null and the latest static snapshot
\* maps its trip; a shape_id that is not null is never replaced.
C26_ShapeAttachedOnlyWhenNull ==
  [][\A t \in TripsKept :
       VehicleIn(realtime_state', t).shape_id # VehicleIn(realtime_state, t).shape_id =>
         /\ VehicleIn(realtime_state, t).shape_id = None
         /\ LatestShapeId(t) # None]_vars

\* C26, amended: a realtime ingest changes the shape_id of an existing
\* vehicle only when the feed contains its trip and the latest static
\* snapshot maps the trip, and then sets it to that mapping whether or not
\* it was null; a shape_id that is not null is never set back to null.
C26_ShapeFollowsLatestMapping ==
  [][\A t \in TripsKept :
       LET old == VehicleIn(realtime_state, t)
           new == VehicleIn(realtime_state', t)
       IN /\ new.shape_id # old.shape_id =>
               /\ new.no_update_counter = 0
               /\ LatestShapeId(t) # None
          /\ (ingests' = ingests + 1 /\ new.no_update_counter = 0
                 /\ LatestShapeId(t) # None) => new.shape_id = LatestShapeId(t)
          /\ old.shape_id # None => new.shape_id # None]_vars

\* A vehicle created with one shape_id that now has another.
C26_Witness ==
  \E v \in Vehicles :
    /\ born_shape[v.key] # None
    /\ v.shape_id # None
    /\ v.shape_id # born_shape[v.key]

\* The sleeps that precede entry i of link_log since the last connection
\* made, or since the start.
RECURSIVE FailuresBefore(_)
FailuresBefore(i) ==
  IF i = 1 \/ link_log[i - 1] = 0 THEN 0 ELSE 1 + FailuresBefore(i - 1)

\* C27: the gateway's client of the fetcher sleeps 1 s before the first
\* reconnect attempt after the start or after a connection it had made, 1 s
\* more after every further failure in a row, up to 4 s, and every failure
\* is followed by another attempt.
C27_ReconnectBackoff ==
  /\ [](\A i \in 1..Len(link_log) :
          link_log[i] # 0 => link_log[i] = Min(1 + FailuresBefore(i), 4))
  /\ (link = "except" ~> link = "connect")

\* The sleeps have grown to the cap and stayed there, a connection was then
\* made and lost, and the next sleep was 1 s again.
C27_Witness ==
  /\ Len(link_log) >= 7
  /\ SubSeq(link_log, 1, 7) = <<1, 2, 3, 4, 4, 0, 1>>
  /\ link = "connect"

\* The number of frames that had been published to a topic when the replay
\* to c began: the place in published of the last frame of the history as it
\* was then.
PublishedBefore(c, k) ==
  IF snap[c][k] = <<>> THEN 0
  ELSE LET last == snap[c][k][Len(snap[c][k])]
       IN CHOOSE i \in 1..Len(published[k]) :
            /\ published[k][i] = last
            /\ \A j \in (i + 1)..Len(published[k]) : published[k][j] # last

\* The frames published to any topic since the replay to c began.
PublishedSince(c) ==
  UNION {{published[k][i] : i \in (PublishedBefore(c, k) + 1)..Len(published[k])} :
           k \in Topics}

\* C28: a subscriber that is connected and has joined the broadcast set has
\* been sent no frame twice, be it by replay and broadcast, and has been
\* sent once every frame published since its replay began, as soon as the
\* publish has returned and its broadcast has run.
C28_ReplayOrBroadcastOnce ==
  \A c \in Subscribers :
    (conn[c] = "open" /\ handler[c] = "listen") =>
      /\ \A f \in Range(sent[c]) : Occurrences(f, sent[c]) = 1
      /\ \A f \in PublishedSince(c) : Settled(f) => Occurrences(f, sent[c]) = 1

\* The handler of c occupies the loop thread, blocked on data_lock, while
\* the lock is held by the handler of d, suspended in a send of its replay
\* that only the loop thread can resume.
WaitsOnSuspended(c, d) ==
  /\ handler[c] = "wait_lock"
  /\ running = c
  /\ data_lock = d
  /\ handler[d] = "suspended"

\* C29: the push server never deadlocks: no handler blocks the loop thread
\* on data_lock while the handler that holds the lock is suspended in a send
\* and waits for the loop thread to resume it.
C29_NeverDeadlocks ==
  \A c \in Subscribers : \A d \in Subscribers \ {c} : ~WaitsOnSuspended(c, d)

\* C30: once the constructor has returned and the server thread's loop is
\* running, the stored loop reference is that loop and never None, so that
\* _notify_clients, reached with subscribers in the set, has a broadcast to
\* schedule.
C30_LoopReferenceStored ==
  (ctor_done /\ loop_started) =>
    /\ loop = "loop"
    /\ (pc = "notify_lock" /\ data_lock = "free") => Scheduled(call.key) # <<>>

\* handle_static_data_request on a history that does not change while it is
\* read: the bundle of the first snapshot with the key and 200, or 404.
handle_static_data_request(history, key) ==
  LET matches == {i \in 1..Len(history) : history[i].key = key}
  IN IF matches = {} THEN <<"Static data not found", 404>>
     ELSE LET first == CHOOSE i \in matches : \A j \in matches : i <= j
          IN <<history[first].formatted_json, 200>>

\* A realtime frame is ingested in this step while the static history holds
\* a snapshot to join against.
JoinsStatic == ingests' = ingests + 1 /\ LatestStaticData # Nothing

\* GET /static/<latestStaticKey> after the step is answered with the bundle
\* of the snapshot the step joined the world model against.
ServesJoinedBundle ==
  LET response == handle_static_data_request(recent_static_snapshots',
                                             realtime_state'.latest_static_key)
  IN /\ response[2] = 200
     /\ response[1] = LatestStaticData[1].formatted_json

\* C31: the snapshots of the static history have pairwise distinct keys, and
\* when a realtime frame is ingested, GET /static/<latestStaticKey> returns
\* the bundle of the static snapshot the world model was joined against,
\* also when several static frames were ingested within one minute.
C31_DistinctStaticKeys ==
  /\ [](\A i, j \in 1..Len(recent_static_snapshots) :
          i # j => recent_static_snapshots[i].key # recent_static_snapshots[j].key)
  /\ [][JoinsStatic => ServesJoinedBundle]_vars

\* C32: the removal of a map client from the client set never raises: the
\* cleanup of a connection handler does not remove a client that a broadcast
\* has already pruned after a send failure.
C32_RemovalNeverRaises ==
  \A c \in MapClients : ws_pc[c] # "KeyError"

\* C33: a realtime frame published by the fetcher is applied to the world
\* model at most once, also across a reconnection of the gateway: the
\* frames of a run carry increasing header timestamps, so every ingest
\* raises the timestamp of the state, which never goes back to that of a
\* frame ingested before.
C33_FrameAppliedOnce ==
  [][ingests' = ingests + 1 =>
       realtime_state'.timestamp > realtime_state.timestamp]_vars

\* Every row of a table with empty gzipped_data comes after a row of the
\* same table that carries a payload; `same` tells whether the two rows
\* describe the same payload.
SelfContained(rows, same(_, _)) ==
  \A i \in 1..Len(rows) :
    rows[i].gzipped_data = EmptyBytes =>
      \E j \in 1..(i - 1) :
        /\ rows[j].gzipped_data # EmptyBytes
        /\ same(rows[j], rows[i])

\* C34: in every archive file, a realtime or static row with empty
\* gzipped_data is preceded, in the same file and table, by a row that
\* carries the payload it repeats, also right after a rotation.
C34_FilesSelfContained ==
  \A f \in 1..Len(db) :
    /\ SelfContained(db[f].snapshots, LAMBDA a, b : a.snapshot_at = b.snapshot_at)
    /\ SelfContained(db[f].static_snapshots,
                     LAMBDA a, b : a.calendar_date = b.calendar_date)

====
